---- MODULE Spec2Model ----
(***************************************************************************)
(* Plan selection, filtering and ordering of the d2c-website scripts.      *)
(*                                                                         *)
(*   plan-card-display (src/unnamed/part_001): getCurrentFilterState,      *)
(*     getFilteredPlans and applyPlanVisibilityAndOrder in the three       *)
(*     filter styles showAll / limit / hideOnly.                           *)
(*   dpr-results (src/dpr-results.js): determineTopThreePlans,             *)
(*     getTopPlansFromRecommendation and applyPlanVisibilityAndOrder in    *)
(*     the plans modes suggested / all.                                    *)
(*                                                                         *)
(* JavaScript values are modelled as strings; the two non-string values    *)
(* the code meets in storage are the sentinels Undefined and Null.         *)
(***************************************************************************)
EXTENDS Integers, Sequences, FiniteSets, TLC

VARIABLES
    page,                 \* which script is attached to the page
    filterStyle,          \* part_001: data-filter-style
    sortByRecommendation, \* dpr-results: data-sort-by-recommendation
    localData,            \* localStorage dpr_local_data
    planQuotes,           \* sessionStorage dpr_results_data.results.PlanQuotes
    dom,                  \* the [dpr-results-plan] elements in document order
    isSyncing,            \* reentrancy guard of syncFormFieldToStorage
    lastOp,               \* what the last handler did to the plan list
    filterState,          \* argument of the selector under study
    filterState2,         \* second argument, for two-run comparisons
    filteredPlans,        \* result of getFilteredPlans(filterState)
    topThree,             \* result of determineTopThreePlans(filterState)
    topThree2,            \* result of determineTopThreePlans(filterState2)
    recommendedPlans,     \* result of getTopPlansFromRecommendation(planQuotes)
    quoteRequest,         \* part_001: the page-load quote request
    selectedPlans,        \* part_001: plans chosen for comparison
    isCompareActive,      \* part_001: comparison mode
    checkboxes,           \* the [data-compare-trigger] checkboxes
    compareSlots,         \* plan name shown by each comparison slot
    hideClass,            \* ids of the plan elements carrying class 'hide'
    removeButtonsHidden,  \* [data-compare="plan-remove"] display is 'none'
    filterControlsDisabled, \* InsuranceReason / CoverageTier controls disabled
    programmaticSyncs,    \* runs of the body of syncFormFieldToStorage that the
                          \* last handler caused by its own field writes
    apiSuccess,           \* part_001: local apiSuccess of handlePageLoadApiCall
    populatedTimer,       \* part_001: the setTimeout callback is queued
    plansPopulatedData,   \* window.__plansPopulatedData
    populatedEvents,      \* detail.success of each 'plans-populated' dispatched
    injector,             \* plan-injector: its 'plans-populated' listener
    injections,           \* plan-injector: runs of processAllInjections
    formValues,           \* dpr-results: value of each field of each form
    localFields,          \* dpr_local_data: the fields that are not filters
    sessionData,          \* sessionStorage dpr_session_data
    urlParams,            \* the query string of the page URL
    sessionOnlyFields,    \* dpr-results: fields prefilled from sessionStorage
    savedModalValues,     \* dpr-results: values saved when the modal opened
    isFormSubmitting,     \* dpr-results: Get Quote was clicked
    modalOpen,            \* dpr-results: the quote modal dialog is open
    apiRequest,           \* dpr-results: the quote requests in flight
    resultsData,          \* dpr-results: the request whose response is stored
                          \* in dpr_results_data and filled into the chart
    modalSnapshot,        \* history: storage and forms when the modal was last
                          \* opened, whether a field was edited and Get Quote
                          \* clicked since
    tooltipScript,        \* tooltip-system: "unloaded" until its first run
    tooltips,             \* tooltip-system: the simple tooltip components
    lastIcon              \* tooltip-system: the icon of the last click, 0 if none

\* the state of the comparison feature
compareVars == <<selectedPlans, isCompareActive, checkboxes, compareSlots,
                 hideClass, removeButtonsHidden, filterControlsDisabled>>

\* the page-load event coordination of plan-card-display and plan-injector
loadVars == <<apiSuccess, populatedTimer, plansPopulatedData, populatedEvents, injector, injections>>

\* the value management of dpr-results
formVars == <<formValues, localFields, sessionData, urlParams, sessionOnlyFields,
              savedModalValues, isFormSubmitting, modalOpen, apiRequest,
              resultsData, modalSnapshot>>

\* the simple tooltips
tooltipVars == <<tooltipScript, tooltips, lastIcon>>

vars == <<page, filterStyle, sortByRecommendation, localData, planQuotes, dom,
          isSyncing, lastOp, filterState, filterState2, filteredPlans,
          topThree, topThree2, recommendedPlans, quoteRequest, compareVars,
          programmaticSyncs, loadVars, formVars, tooltipVars>>

(***************************************************************************)
(* Bounds                                                                  *)
(***************************************************************************)
MaxDom == 3

(***************************************************************************)
(* JavaScript values                                                       *)
(***************************************************************************)
Undefined == "<undefined>"
Null == "<null>"

\* !v for the values storage can hold (strings, null, undefined)
Falsy(v) == v \in {Undefined, Null, ""}

\* a || b
Or(a, b) == IF Falsy(a) THEN b ELSE a

\* Number(s) for the strings of the model; -1 stands for NaN
ToNumber(s) ==
    CASE s = "" -> 0
      [] s = "0" -> 0
      [] s = "1" -> 1
      [] s = "2" -> 2
      [] s = "3" -> 3
      [] OTHER -> -1

\* v == n for a number n: null and undefined equal no number, a string is
\* converted with Number()
LooseEqNum(v, n) == v \notin {Undefined, Null} /\ ToNumber(v) = n

\* array.includes(x)
Includes(seq, x) == \E i \in DOMAIN seq : seq[i] = x

\* array.indexOf(x): 0-based, -1 when absent
IndexOf(seq, x) ==
    IF Includes(seq, x)
    THEN (CHOOSE i \in DOMAIN seq : seq[i] = x /\ \A j \in 1..(i-1) : seq[j] # x) - 1
    ELSE -1

Range(seq) == {seq[i] : i \in DOMAIN seq}

Distinct(seq) == \A i, j \in DOMAIN seq : i # j => seq[i] # seq[j]

(***************************************************************************)
(* plan-card-display: rule tables                                          *)
(***************************************************************************)
INSURANCE_REASON_SETS ==
    ("1" :> <<"LINK 1", "LINK 2", "LINK 3", "LINK 4", "ZONE FUNDAMENTAL PLAN", "ZONE 4", "ZONE 5">>) @@
    ("2" :> <<"LINK 4", "ZONE 2", "ZONE 3", "ZONE FUNDAMENTAL PLAN">>) @@
    ("0" :> <<"LINK 2", "LINK 3", "LINK 4", "ZONE FUNDAMENTAL PLAN", "ZONE 5", "ZONE 6", "ZONE 7">>)

COVERAGE_TIER_SETS ==
    ("basic" :> <<"LINK 1", "LINK 2", "LINK 3", "ZONE 2", "ZONE 3", "ZONE FUNDAMENTAL PLAN", "ZONE 4", "ZONE 5">>) @@
    ("comprehensive" :> <<"LINK 1", "LINK 2", "LINK 3", "LINK 4", "ZONE 2", "ZONE 3", "ZONE 4", "ZONE 5", "ZONE 6", "ZONE 7">>)

STATIC_FILTER_SCENARIOS ==
    ("0:comprehensive" :> <<"LINK 4", "LINK 3", "ZONE 7", "ZONE 6">>) @@
    ("1:basic" :> <<"LINK 2", "LINK 1", "ZONE 4", "ZONE FUNDAMENTAL PLAN">>) @@
    ("1:comprehensive" :> <<"LINK 4", "LINK 3", "LINK 1", "ZONE 4">>) @@
    ("2:all" :> <<"LINK 4", "LINK 3", "LINK 2", "ZONE 7", "ZONE 6", "ZONE 5", "ZONE FUNDAMENTAL PLAN", "ZONE 3", "ZONE 2">>) @@
    ("2:comprehensive" :> <<"LINK 4", "ZONE 7", "ZONE 3">>)

\* The table as the README documents it
README_STATIC_FILTER_SCENARIOS ==
    ("0:comprehensive" :> <<"LINK 4", "LINK 3", "ZONE 7", "ZONE 6">>) @@
    ("1:all" :> <<"LINK 4", "LINK 3", "LINK 2", "LINK 1", "ZONE 7", "ZONE 6", "ZONE 5", "ZONE 4", "ZONE FUNDAMENTAL PLAN">>) @@
    ("1:basic" :> <<"LINK 2", "LINK 1", "ZONE 4", "ZONE FUNDAMENTAL PLAN">>) @@
    ("1:comprehensive" :> <<"LINK 4", "LINK 3", "LINK 1", "ZONE 4">>) @@
    ("2:all" :> <<"LINK 4", "LINK 3", "LINK 2", "ZONE 7", "ZONE 6", "ZONE 5", "ZONE FUNDAMENTAL PLAN", "ZONE 3", "ZONE 2">>) @@
    ("2:comprehensive" :> <<"LINK 4", "ZONE 7", "ZONE 3">>)

(***************************************************************************)
(* plan-card-display: Filter State Resolver and Plan Selector              *)
(***************************************************************************)
\* getCurrentFilterState of plan-card-display: (getLocalStorageData() || {})
\* and each field || 'all'
getCurrentFilterState(ld) ==
    [InsuranceReason |-> IF ld.exists THEN Or(ld.data.InsuranceReason, "all") ELSE "all",
     CoverageTier    |-> IF ld.exists THEN Or(ld.data.CoverageTier, "all") ELSE "all"]

\* `${InsuranceReason}:${CoverageTier}`
StaticKey(fs) == fs.InsuranceReason \o ":" \o fs.CoverageTier

\* a selector result: null (no filtering) or a list of plan names
NoFiltering == [null |-> TRUE, list |-> <<>>]
Included(list) == [null |-> FALSE, list |-> list]

IntersectionDropsTier(insuranceSet, tierSet) == insuranceSet

\* insuranceSet.filter(plan => tierSet.includes(plan))
Intersection(insuranceSet, tierSet) ==
    SelectSeq(insuranceSet, LAMBDA plan : Includes(tierSet, plan))

\* the dynamic set logic of getFilteredPlans (after the static lookup)
DynamicFilteredPlans(fs) ==
    LET hasInsuranceSet == fs.InsuranceReason \in DOMAIN INSURANCE_REASON_SETS
        hasTierSet == fs.CoverageTier \in DOMAIN COVERAGE_TIER_SETS
    IN  IF ~hasInsuranceSet /\ ~hasTierSet THEN NoFiltering
        ELSE IF ~hasInsuranceSet THEN Included(COVERAGE_TIER_SETS[fs.CoverageTier])
        ELSE IF ~hasTierSet THEN Included(INSURANCE_REASON_SETS[fs.InsuranceReason])
        ELSE Included(Intersection(INSURANCE_REASON_SETS[fs.InsuranceReason],
                                   COVERAGE_TIER_SETS[fs.CoverageTier]))

getFilteredPlansNoStatic(fs) == DynamicFilteredPlans(fs)

getFilteredPlans(fs) ==
    LET staticKey == StaticKey(fs)
    IN  IF staticKey \in DOMAIN STATIC_FILTER_SCENARIOS
        THEN Included(STATIC_FILTER_SCENARIOS[staticKey])
        ELSE DynamicFilteredPlans(fs)

(***************************************************************************)
(* dpr-results: filter-based top 3                                         *)
(***************************************************************************)
TopThreeReason2PreExisting(fs) ==
    IF fs.CoverageTier = "basic"
    THEN IF fs.PreExisting = "yes" /\ fs.PreExistingCoverage = "yes"
         THEN <<"ZONE 2", "ZONE 3", "ZONE FUNDAMENTAL PLAN">>
         ELSE <<"ZONE 3", "ZONE 2", "ZONE FUNDAMENTAL PLAN">>
    ELSE IF fs.CoverageTier = "comprehensive"
    THEN IF fs.PreExisting = "yes" /\ fs.PreExistingCoverage = "yes"
         THEN <<"ZONE 3", "ZONE 2", "LINK 4">>
         ELSE <<"ZONE 2", "ZONE 3", "LINK 4">>
    ELSE <<>>

\* the InsuranceReason == 2 branch: PreExisting doesn't matter
TopThreeReason2(fs) ==
    IF fs.CoverageTier = "basic" THEN <<"ZONE 2", "ZONE 3", "ZONE FUNDAMENTAL PLAN">>
    ELSE IF fs.CoverageTier = "comprehensive" THEN <<"ZONE 3", "ZONE 2", "LINK 4">>
    ELSE <<>>

\* the InsuranceReason == 1 branch
TopThreeReason1(fs) ==
    IF fs.CoverageTier = "basic"
    THEN IF fs.PreExisting = "yes" /\ fs.PreExistingCoverage = "yes"
         THEN <<"LINK 1", "LINK 2", "ZONE FUNDAMENTAL PLAN">>
         ELSE <<"ZONE 4", "LINK 1", "LINK 2">>
    ELSE IF fs.CoverageTier = "comprehensive"
    THEN IF fs.PreExisting = "yes" /\ fs.PreExistingCoverage = "yes"
         THEN <<"LINK 1", "LINK 4", "LINK 3">>
         ELSE <<"ZONE 4", "LINK 1", "ZONE 5">>
    ELSE <<>>

TopThreeReason0NoBranch(fs) ==
    IF fs.CoverageTier = "basic"
    THEN IF fs.PreExisting = "yes" /\ fs.PreExistingCoverage = "yes"
         THEN <<"LINK 2", "LINK 3", "ZONE FUNDAMENTAL PLAN">>
         ELSE <<"ZONE 5", "LINK 3", "LINK 2">>
    ELSE IF fs.CoverageTier = "comprehensive"
    THEN IF fs.PreExisting = "yes" /\ fs.PreExistingCoverage = "yes"
         THEN <<"LINK 4", "LINK 3", "LINK 2">>
         ELSE <<"ZONE 7", "ZONE 6", "LINK 4">>
    ELSE <<>>

\* the InsuranceReason == 0 branch
TopThreeReason0(fs) ==
    IF fs.CoverageTier = "basic"
    THEN IF fs.PreExisting = "yes" /\ fs.PreExistingCoverage = "yes"
         THEN <<"LINK 2", "LINK 3", "ZONE FUNDAMENTAL PLAN">>
         ELSE IF fs.PreExisting = "no"
         THEN <<"ZONE 5", "LINK 2", "LINK 3">>
         ELSE <<"ZONE 5", "LINK 3", "LINK 2">>
    ELSE IF fs.CoverageTier = "comprehensive"
    THEN IF fs.PreExisting = "yes" /\ fs.PreExistingCoverage = "yes"
         THEN <<"LINK 4", "LINK 3", "LINK 2">>
         ELSE IF fs.PreExisting = "no"
         THEN <<"ZONE 7", "ZONE 6", "ZONE 5">>
         ELSE <<"ZONE 7", "ZONE 6", "LINK 4">>
    ELSE <<>>

determineTopThreePlansDefaults(fs) ==
    IF LooseEqNum(fs.InsuranceReason, 2) THEN TopThreeReason2(fs)
    ELSE IF LooseEqNum(fs.InsuranceReason, 1) THEN TopThreeReason1(fs)
    ELSE IF LooseEqNum(fs.InsuranceReason, 0) THEN TopThreeReason0(fs)
    ELSE <<"ZONE 5", "LINK 2", "LINK 3">>

\* A branch that finds no CoverageTier falls through the remaining
\* InsuranceReason tests, none of which can hold, to the fallback [].
determineTopThreePlans(fs) ==
    IF LooseEqNum(fs.InsuranceReason, 2) THEN TopThreeReason2(fs)
    ELSE IF LooseEqNum(fs.InsuranceReason, 1) THEN TopThreeReason1(fs)
    ELSE IF LooseEqNum(fs.InsuranceReason, 0) THEN TopThreeReason0(fs)
    ELSE <<>>

(***************************************************************************)
(* The page: plan elements in document order                               *)
(*                                                                         *)
(* A plan element is [id, plan, injected, parent, display]: its identity,  *)
(* its dpr-results-plan attribute, whether it carries data-injected-plan,  *)
(* the container it is a child of and its style.display.  Containers are   *)
(* siblings numbered in document order, so dom lists the children of       *)
(* container 1, then those of container 2, and so on.                      *)
(***************************************************************************)
NumParents == 2

PagePlans == {"LINK 1", "ZONE 2", "LINK 2"}

ElementIds(els) == {els[i].id : i \in DOMAIN els}

ElementById(d, id) == d[CHOOSE i \in DOMAIN d : d[i].id = id]

\* el.style.display = value, for each el of els
SetDisplay(d, els, value) ==
    [i \in DOMAIN d |->
        IF d[i].id \in ElementIds(els) THEN [d[i] EXCEPT !.display = value] ELSE d[i]]

\* the children of container p once the elements of planArray have been
\* removed and `order` has been appended to planParent
RECURSIVE ChildrenFrom(_, _, _, _, _)
ChildrenFrom(p, d, planArray, planParent, order) ==
    IF p > NumParents THEN <<>>
    ELSE LET remaining == SelectSeq(d, LAMBDA e :
                              e.parent = p /\ e.id \notin ElementIds(planArray))
             appended == IF p = planParent
                         THEN [i \in DOMAIN order |->
                                 [ElementById(d, order[i].id) EXCEPT !.parent = planParent]]
                         ELSE <<>>
         IN  remaining \o appended \o ChildrenFrom(p + 1, d, planArray, planParent, order)

ReorderDomOthersFirst(d, planArray, first, rest) ==
    ChildrenFrom(1, d, planArray, planArray[1].parent, rest \o first)

\* planArray.forEach(el => el.remove()); first.forEach(appendChild);
\* rest.forEach(appendChild), with planParent = planArray[0].parentElement
ReorderDom(d, planArray, first, rest) ==
    ChildrenFrom(1, d, planArray, planArray[1].parent, first \o rest)

(***************************************************************************)
(* plan-card-display: Visibility Renderer                                  *)
(***************************************************************************)
\* document.querySelectorAll('[dpr-results-plan]:not([data-injected-plan])')
ManagedPlanElements(d) == SelectSeq(d, LAMBDA e : ~e.injected)

Reverse(seq) == [i \in DOMAIN seq |-> seq[Len(seq) + 1 - i]]

FilteredElementsUnshift(planArray, names) ==
    Reverse(SelectSeq(planArray, LAMBDA e : Includes(names, e.plan)))

\* Step 3: the elements whose plan name is in the list, in DOM order
FilteredElements(planArray, names) ==
    SelectSeq(planArray, LAMBDA e : Includes(names, e.plan))

OtherElements(planArray, names) ==
    SelectSeq(planArray, LAMBDA e : ~Includes(names, e.plan))

ShowAllInPlaceNoReset(d, allPlanElements) == d

\* no filtering: show all plans and keep the existing DOM order
ShowAllInPlace(d, allPlanElements) == SetDisplay(d, allPlanElements, "")

ApplyHideOnlyReorders(d, filteredElements, otherElements) ==
    SetDisplay(SetDisplay(ReorderDom(d, filteredElements \o otherElements,
                                     filteredElements, otherElements),
                          filteredElements, ""),
               otherElements, "none")

\* hideOnly: preserve the DOM order, hide the non-matching elements
ApplyHideOnly(d, filteredElements, otherElements) ==
    SetDisplay(SetDisplay(d, filteredElements, ""), otherElements, "none")

\* limit: after the reorder, show only the filtered elements
ApplyLimit(d, filteredElements, otherElements) ==
    SetDisplay(SetDisplay(d, filteredElements, ""), otherElements, "none")

ApplyShowAllNoReset(d, allPlanElements) == d

\* showAll: after the reorder, every managed element visible
ApplyShowAll(d, allPlanElements) == SetDisplay(d, allPlanElements, "")

applyPlanVisibilityAndOrder(d, ld, style) ==
    LET filteredPlanNames == getFilteredPlans(getCurrentFilterState(ld))
        allPlanElements == ManagedPlanElements(d)
    IN  IF Len(allPlanElements) = 0 THEN d
        ELSE IF filteredPlanNames.null THEN ShowAllInPlace(d, allPlanElements)
        ELSE LET filteredElements == FilteredElements(allPlanElements, filteredPlanNames.list)
                 otherElements == OtherElements(allPlanElements, filteredPlanNames.list)
             IN  IF style = "hideOnly"
                 THEN ApplyHideOnly(d, filteredElements, otherElements)
                 ELSE LET reordered == ReorderDom(d, allPlanElements,
                                                  filteredElements, otherElements)
                      IN  IF style = "limit"
                          THEN ApplyLimit(reordered, filteredElements, otherElements)
                          ELSE ApplyShowAll(reordered, allPlanElements)

(***************************************************************************)
(* dpr-results: recommendation order and Visibility Renderer               *)
(***************************************************************************)
\* Array.prototype.sort with a comparator a.key - b.key, keys[i] being the
\* key of seq[i]: a stable sort
StableSortBy(seq, keys) ==
    LET Rank(i) == Cardinality({j \in DOMAIN seq :
                        \/ keys[j] < keys[i]
                        \/ keys[j] = keys[i] /\ j < i}) + 1
    IN  [r \in DOMAIN seq |-> seq[CHOOSE i \in DOMAIN seq : Rank(i) = r]]

\* a plan quote without a Recommendation field: `undefined >= 1` is false,
\* as is -1 >= 1
NoRecommendation == -1

getTopPlansFromRecommendation(quotes) ==
    LET recommended == SelectSeq(quotes, LAMBDA q :
                           q.Recommendation >= 1 /\ q.Recommendation <= 3)
        sorted == StableSortBy(recommended,
                               [i \in DOMAIN recommended |-> recommended[i].Recommendation])
    IN  [i \in DOMAIN sorted |-> sorted[i].PlanName]

\* getCurrentFilterState of dpr-results: the four stored fields as they are
getCurrentFilterStateDpr(ld) ==
    [InsuranceReason     |-> ld.data.InsuranceReason,
     CoverageTier        |-> ld.data.CoverageTier,
     PreExisting         |-> ld.data.PreExisting,
     PreExistingCoverage |-> ld.data.PreExistingCoverage]

DetermineTopListAlwaysRecommends(ld, quotes, byRecommendation, useRecommendation) ==
    IF byRecommendation
    THEN LET recommended == getTopPlansFromRecommendation(quotes)
         IN  IF Len(recommended) = 0
             THEN determineTopThreePlans(getCurrentFilterStateDpr(ld))
             ELSE recommended
    ELSE determineTopThreePlans(getCurrentFilterStateDpr(ld))

DetermineTopListNoFallback(ld, quotes, byRecommendation, useRecommendation) ==
    IF byRecommendation /\ useRecommendation
    THEN getTopPlansFromRecommendation(quotes)
    ELSE determineTopThreePlans(getCurrentFilterStateDpr(ld))

\* Step 2 of applyPlanVisibilityAndOrder: the top list in use
DetermineTopList(ld, quotes, byRecommendation, useRecommendation) ==
    IF byRecommendation /\ useRecommendation
    THEN LET recommended == getTopPlansFromRecommendation(quotes)
         IN  IF Len(recommended) = 0
             THEN determineTopThreePlans(getCurrentFilterStateDpr(ld))
             ELSE recommended
    ELSE determineTopThreePlans(getCurrentFilterStateDpr(ld))

\* Step 6: the elements named in the top list, in DOM order
TopThreeElements(planArray, topThreePlans) ==
    SelectSeq(planArray, LAMBDA e : Includes(topThreePlans, e.plan))

SortByPriorityKeepsDomOrder(topThreeElements, topThreePlans) == topThreeElements

\* Step 7: sorted by their position in the top list
SortByPriority(topThreeElements, topThreePlans) ==
    StableSortBy(topThreeElements,
                 [i \in DOMAIN topThreeElements |->
                     IndexOf(topThreePlans, topThreeElements[i].plan)])

\* Step 8: visibility by plans mode
ApplyPlansMode(d, plansMode, planArray, topThreeElements, otherElements) ==
    IF plansMode = "suggested"
    THEN SetDisplay(SetDisplay(d, topThreeElements, ""), otherElements, "none")
    ELSE SetDisplay(d, planArray, "")

applyPlanVisibilityAndOrderDpr(d, ld, quotes, byRecommendation, useRecommendation) ==
    IF ~ld.exists THEN d
    ELSE LET topThreePlans == DetermineTopList(ld, quotes, byRecommendation, useRecommendation)
             plansMode == Or(ld.data.plans, "suggested")
             planArray == d
         IN  IF Len(topThreePlans) = 0 THEN d
             ELSE IF Len(planArray) = 0 THEN d
             ELSE LET topThreeElements ==
                          SortByPriority(TopThreeElements(planArray, topThreePlans),
                                         topThreePlans)
                      otherElements == OtherElements(planArray, topThreePlans)
                  IN  ReorderDom(ApplyPlansMode(d, plansMode, planArray,
                                                topThreeElements, otherElements),
                                 planArray, topThreeElements, otherElements)

(***************************************************************************)
(* Storage                                                                 *)
(***************************************************************************)
Fields == {"InsuranceReason", "CoverageTier", "PreExisting", "PreExistingCoverage", "plans"}

EmptyObject == [f \in Fields |-> Undefined]

\* localStorage holds nothing under dpr_local_data
NoLocalData == [exists |-> FALSE, data |-> EmptyObject]

\* data = getLocalStorageData() || {}; data[fieldName] = value; setItem
updateLocalStorage(ld, fieldName, value) ==
    [exists |-> TRUE, data |-> [ld.data EXCEPT ![fieldName] = value]]

\* data = getLocalStorageData() || {}; delete data[fieldName]; setItem
removeLocalStorageField(ld, fieldName) ==
    [exists |-> TRUE, data |-> [ld.data EXCEPT ![fieldName] = Undefined]]

(***************************************************************************)
(* plan-card-display: plan comparison                                      *)
(*                                                                         *)
(* A comparison checkbox is [plan, wired, checked, disabled]: its          *)
(* data-compare-trigger attribute, whether initializeComparisonFeature     *)
(* attached its change listener to it (it does for the checkboxes present  *)
(* at initialize(); the checkbox inside an injected clone has none), and   *)
(* its checked and disabled properties.  The handlers work on the record   *)
(* st of what they read and write.                                         *)
(***************************************************************************)
NumSlots == 3

CompareState(sel, active, cbs, slots, hide, removeHidden, controlsDisabled, d, ld, syncing) ==
    [selectedPlans |-> sel, isCompareActive |-> active, checkboxes |-> cbs,
     compareSlots |-> slots, hideClass |-> hide,
     removeButtonsHidden |-> removeHidden,
     filterControlsDisabled |-> controlsDisabled, dom |-> d, localData |-> ld,
     isSyncing |-> syncing, programmaticSyncs |-> 0]

\* the first slot whose wrapper is not 'active', 0 when all are
FirstFreeSlot(slots) ==
    IF \E i \in DOMAIN slots : slots[i] = ""
    THEN CHOOSE i \in DOMAIN slots : slots[i] = "" /\ \A j \in 1..(i - 1) : slots[j] # ""
    ELSE 0

addPlanToCompare(st, planName) ==
    IF Len(st.selectedPlans) >= 3 \/ Includes(st.selectedPlans, planName) THEN st
    ELSE IF FirstFreeSlot(st.compareSlots) = 0 THEN st
    ELSE [st EXCEPT !.compareSlots[FirstFreeSlot(st.compareSlots)] = planName,
                    !.selectedPlans = Append(st.selectedPlans, planName)]

\* selectedPlans.splice(index, 1)
Splice(seq, index) ==
    [i \in 1..(Len(seq) - 1) |-> IF i <= index THEN seq[i] ELSE seq[i + 1]]

\* splice the plan out, clear all slots, re-add the remaining plans in order
removePlanFromCompare(st, planName) ==
    LET index == IndexOf(st.selectedPlans, planName)
        remaining == IF index > -1 THEN Splice(st.selectedPlans, index)
                                   ELSE st.selectedPlans
    IN  [st EXCEPT !.selectedPlans = remaining,
                   !.compareSlots = [i \in DOMAIN st.compareSlots |->
                                       IF i <= Len(remaining) THEN remaining[i] ELSE ""]]

\* checkbox.disabled = selectedPlans.length >= 3 && !checkbox.checked
updateCheckboxState(st) ==
    [st EXCEPT !.checkboxes = [i \in DOMAIN st.checkboxes |->
        [st.checkboxes[i] EXCEPT !.disabled =
            Len(st.selectedPlans) >= 3 /\ ~st.checkboxes[i].checked]]]

clearComparisonKeepsHidden(st, style) ==
    [st EXCEPT !.checkboxes = [i \in DOMAIN st.checkboxes |->
                   [st.checkboxes[i] EXCEPT !.checked = FALSE, !.disabled = FALSE]],
               !.compareSlots = [i \in DOMAIN st.compareSlots |-> ""],
               !.removeButtonsHidden = FALSE,
               !.filterControlsDisabled = FALSE,
               !.selectedPlans = <<>>,
               !.isCompareActive = FALSE,
               !.dom = applyPlanVisibilityAndOrder(st.dom, st.localData, style)]

RECURSIVE clearComparison(_, _)
\* the part of updateCompareButtonState that changes state: an empty
\* selection during an active comparison clears it
updateCompareButtonState(st, style) ==
    IF Len(st.selectedPlans) = 0 /\ st.isCompareActive
    THEN clearComparison(st, style)
    ELSE st

\* show all columns, reset the checkboxes and the slots, show the remove
\* buttons, enable the filter controls, reset the state, update the compare
\* button (updateCompareButtonState, which calls back only while
\* isCompareActive is set), re-apply the filters
clearComparison(st, style) ==
    LET reset == updateCompareButtonState(
                     [st EXCEPT !.hideClass = {},
                                !.checkboxes = [i \in DOMAIN st.checkboxes |->
                                    [st.checkboxes[i] EXCEPT !.checked = FALSE,
                                                             !.disabled = FALSE]],
                                !.compareSlots = [i \in DOMAIN st.compareSlots |-> ""],
                                !.removeButtonsHidden = FALSE,
                                !.filterControlsDisabled = FALSE,
                                !.selectedPlans = <<>>,
                                !.isCompareActive = FALSE],
                     style)
    IN  [reset EXCEPT !.dom = applyPlanVisibilityAndOrder(reset.dom, reset.localData,
                                                         style)]

resetFiltersToAllKeepsStorage(st, style) == st

\* syncFormFieldToStorage as the listener of a change event that a handler
\* dispatched itself (setFieldValue): it returns at the guard when isSyncing
\* is set, and otherwise runs its body and releases the guard
changeListener(st, fieldName, value, style) ==
    IF st.isSyncing THEN st
    ELSE LET stored == IF value = "all"
                       THEN removeLocalStorageField(st.localData, fieldName)
                       ELSE updateLocalStorage(st.localData, fieldName, value)
         IN  [st EXCEPT !.localData = stored,
                        !.dom = applyPlanVisibilityAndOrder(st.dom, stored, style),
                        !.programmaticSyncs = @ + 1]

\* removes both filter fields from storage and sets the filter controls of
\* the form to 'all'; setFieldValue dispatches a change event for each
resetFiltersToAll(st, style) ==
    LET stored == removeLocalStorageField(
                      removeLocalStorageField(st.localData, "InsuranceReason"),
                      "CoverageTier")
    IN  changeListener(
            changeListener([st EXCEPT !.localData = stored],
                           "InsuranceReason", "all", style),
            "CoverageTier", "all", style)

\* every [dpr-results-plan] column: class 'hide' when not selected,
\* style.display = '' when selected
HideNonSelected(st) ==
    [st EXCEPT !.hideClass = st.hideClass \cup
                   {st.dom[i].id : i \in {j \in DOMAIN st.dom :
                                       ~Includes(st.selectedPlans, st.dom[j].plan)}},
               !.dom = SetDisplay(st.dom,
                                  SelectSeq(st.dom, LAMBDA e :
                                      Includes(st.selectedPlans, e.plan)),
                                  "")]

activateComparisonFromEmpty(st, style) ==
    [HideNonSelected(resetFiltersToAll(st, style)) EXCEPT
        !.checkboxes = [i \in DOMAIN st.checkboxes |->
                           [st.checkboxes[i] EXCEPT !.disabled = TRUE]],
        !.removeButtonsHidden = TRUE,
        !.filterControlsDisabled = TRUE,
        !.isCompareActive = TRUE]

\* nothing without a selection; otherwise reset the filters, hide the
\* columns that are not selected, disable the checkboxes and the filter
\* controls, hide the remove buttons
activateComparison(st, style) ==
    IF Len(st.selectedPlans) = 0 THEN st
    ELSE [HideNonSelected(resetFiltersToAll(st, style)) EXCEPT
              !.checkboxes = [i \in DOMAIN st.checkboxes |->
                                 [st.checkboxes[i] EXCEPT !.disabled = TRUE]],
              !.removeButtonsHidden = TRUE,
              !.filterControlsDisabled = TRUE,
              !.isCompareActive = TRUE]

\* the change listener of a comparison checkbox
checkboxChangeHandler(st, i, style) ==
    LET planName == st.checkboxes[i].plan
        changed == IF st.checkboxes[i].checked
                   THEN addPlanToCompare(st, planName)
                   ELSE removePlanFromCompare(st, planName)
    IN  updateCompareButtonState(updateCheckboxState(changed), style)

removeClickHandlerWhileActive(st, k, style) ==
    LET planName == st.compareSlots[k]
        unchecked == [st EXCEPT !.checkboxes = [i \in DOMAIN st.checkboxes |->
            IF st.checkboxes[i].wired /\ st.checkboxes[i].plan = planName
            THEN [st.checkboxes[i] EXCEPT !.checked = FALSE]
            ELSE st.checkboxes[i]]]
    IN  updateCompareButtonState(
            updateCheckboxState(removePlanFromCompare(unchecked, planName)), style)

\* the document click listener, for a click inside the remove button of
\* slot k
removeClickHandler(st, k, style) ==
    IF st.isCompareActive THEN st
    ELSE LET planName == st.compareSlots[k]
             unchecked == [st EXCEPT !.checkboxes = [i \in DOMAIN st.checkboxes |->
                 IF st.checkboxes[i].wired /\ st.checkboxes[i].plan = planName
                 THEN [st.checkboxes[i] EXCEPT !.checked = FALSE]
                 ELSE st.checkboxes[i]]]
         IN  updateCompareButtonState(
                 updateCheckboxState(removePlanFromCompare(unchecked, planName)), style)

\* the click listener of the compare button
compareButtonClickHandler(st, style) ==
    IF st.isCompareActive THEN clearComparison(st, style)
    ELSE activateComparison(st, style)

(***************************************************************************)
(* Initial states                                                          *)
(***************************************************************************)
\* what a page's markup may be: up to MaxDom plan elements, each original
\* plan once and each injected clone once, every container holding either
\* originals or clones (plan-injector empties its targets before filling
\* them), containers numbered without gaps
WellFormed(d) ==
    /\ d[1].parent = 1
    /\ \A i \in 1..(Len(d) - 1) :
          d[i + 1].parent \in {d[i].parent, d[i].parent + 1}
    /\ \A i, j \in DOMAIN d :
          /\ i # j => ~(d[i].plan = d[j].plan /\ d[i].injected = d[j].injected)
          /\ d[i].parent = d[j].parent => d[i].injected = d[j].injected

\* the well-formed lists of exactly n plan elements, built by appending one
\* element at a time (displays: the inline style.display values the markup
\* may carry)
RECURSIVE MarkupOfLen(_, _, _)
MarkupOfLen(n, injectedFlags, displays) ==
    IF n = 0 THEN {<<>>}
    ELSE {x \in {Append(d, [id |-> n, plan |-> e.plan, injected |-> e.injected,
                             parent |-> e.parent, display |-> e.display]) :
                    d \in MarkupOfLen(n - 1, injectedFlags, displays),
                    e \in [plan : PagePlans, injected : injectedFlags,
                           parent : 1..NumParents, display : displays]} :
            WellFormed(x)}

Markup(injectedFlags, displays) ==
    UNION {MarkupOfLen(n, injectedFlags, displays) : n \in 1..MaxDom}

\* what dpr_local_data may hold when plan-card-display starts
CardStored ==
    {NoLocalData} \cup
    {[exists |-> TRUE,
      data |-> [EmptyObject EXCEPT !.InsuranceReason = r, !.CoverageTier = t]] :
        r \in {"0", "1", "2", "all", Undefined},
        t \in {"basic", "comprehensive", "all", Undefined}}

\* what dpr_local_data may hold when dpr-results starts
DprStored ==
    {NoLocalData} \cup
    {[exists |-> TRUE,
      data |-> [InsuranceReason |-> r, CoverageTier |-> t, PreExisting |-> pe,
                PreExistingCoverage |-> pec, plans |-> Undefined]] :
        r \in {"0", "1", "2", Undefined},
        t \in {"basic", "comprehensive", "all", Undefined},
        pe \in {"yes", "no", Undefined},
        pec \in {"yes", "no", Undefined}}

\* the values the form controls of each page can take
CardFieldValues ==
    ("InsuranceReason" :> {"0", "1", "2", "all"}) @@
    ("CoverageTier" :> {"basic", "comprehensive", "all"})

DprFieldValues ==
    ("InsuranceReason" :> {"0", "1", "2"}) @@
    ("CoverageTier" :> {"basic", "comprehensive"}) @@
    ("PreExisting" :> {"yes", "no"}) @@
    ("PreExistingCoverage" :> {"yes", "no"}) @@
    ("plans" :> {"suggested", "all"})

\* PlanQuotes of the quote responses considered
QuoteResponses ==
    { <<>>,
      <<[PlanName |-> "LINK 1", Recommendation |-> 0],
        [PlanName |-> "ZONE 2", Recommendation |-> NoRecommendation]>>,
      <<[PlanName |-> "LINK 2", Recommendation |-> 2],
        [PlanName |-> "ZONE 2", Recommendation |-> 1]>> }

IdleFilterState ==
    [InsuranceReason |-> Undefined, CoverageTier |-> Undefined,
     PreExisting |-> Undefined, PreExistingCoverage |-> Undefined]

SelectorIdle ==
    /\ filterState = IdleFilterState
    /\ filterState2 = IdleFilterState
    /\ filteredPlans = NoFiltering
    /\ topThree = <<>>
    /\ topThree2 = <<>>
    /\ recommendedPlans = <<>>

\* a page without comparison UI: initializeComparisonFeature returns at once
CompareIdle ==
    /\ selectedPlans = <<>>
    /\ isCompareActive = FALSE
    /\ checkboxes = <<>>
    /\ compareSlots = <<>>
    /\ hideClass = {}
    /\ removeButtonsHidden = FALSE
    /\ filterControlsDisabled = FALSE

\* no page-load coordination under study
LoadIdle ==
    /\ apiSuccess = FALSE
    /\ populatedTimer = FALSE
    /\ plansPopulatedData = <<>>
    /\ populatedEvents = <<>>
    /\ injector = "none"
    /\ injections = 0

\* no form under study
FormIdle ==
    /\ formValues = <<>>
    /\ localFields = <<>>
    /\ sessionData = <<>>
    /\ urlParams = <<>>
    /\ sessionOnlyFields = {}
    /\ savedModalValues = <<>>
    /\ isFormSubmitting = FALSE
    /\ modalOpen = FALSE
    /\ apiRequest = {}
    /\ resultsData = "none"
    /\ modalSnapshot = <<>>

\* a page without simple tooltips
TooltipIdle ==
    /\ tooltipScript = "unloaded"
    /\ tooltips = <<>>
    /\ lastIcon = 0

InitCard ==
    /\ dom \in Markup(BOOLEAN, {""})
    /\ page = "plan-card-display"
    /\ filterStyle \in {"showAll", "limit", "hideOnly"}
    /\ sortByRecommendation = FALSE
    /\ localData \in CardStored
    /\ planQuotes = <<>>
    /\ isSyncing = FALSE
    /\ lastOp = "init"
    /\ quoteRequest = "pending"
    /\ SelectorIdle
    /\ CompareIdle
    /\ programmaticSyncs = 0
    /\ LoadIdle
    /\ FormIdle
    /\ TooltipIdle

\* plan-card-display over markup whose inline styles already hide elements
InitCardStyled ==
    /\ dom \in Markup(BOOLEAN, {"", "none"})
    /\ page = "plan-card-display"
    /\ filterStyle \in {"showAll", "limit", "hideOnly"}
    /\ sortByRecommendation = FALSE
    /\ localData \in CardStored
    /\ planQuotes = <<>>
    /\ isSyncing = FALSE
    /\ lastOp = "init"
    /\ quoteRequest = "pending"
    /\ SelectorIdle
    /\ CompareIdle
    /\ programmaticSyncs = 0
    /\ LoadIdle
    /\ FormIdle
    /\ TooltipIdle

InitDpr ==
    /\ dom \in Markup({FALSE}, {""})
    /\ page = "dpr-results"
    /\ filterStyle = "showAll"
    /\ sortByRecommendation \in BOOLEAN
    /\ localData \in DprStored
    /\ planQuotes = <<>>
    /\ isSyncing = FALSE
    /\ lastOp = "init"
    /\ quoteRequest = "none"
    /\ SelectorIdle
    /\ CompareIdle
    /\ programmaticSyncs = 0
    /\ LoadIdle
    /\ FormIdle
    /\ TooltipIdle

Init == InitCard \/ InitDpr

(***************************************************************************)
(* plan-card-display: handlers                                             *)
(***************************************************************************)
\* syncFormFieldToStorage for a user change of a filter control (a disabled
\* control takes no user input): the value
\* 'all' removes the field, any other value is stored; the re-entrant calls
\* made by syncAllFieldsWithName return at the guard; the plan list is
\* rendered; the guard is released
syncFormFieldToStorage(fieldName, value) ==
    /\ page = "plan-card-display"
    /\ ~filterControlsDisabled
    /\ ~isSyncing
    /\ LET stored == IF value = "all"
                     THEN removeLocalStorageField(localData, fieldName)
                     ELSE updateLocalStorage(localData, fieldName, value)
       IN  /\ localData' = stored
           /\ dom' = applyPlanVisibilityAndOrder(dom, stored, filterStyle)
    /\ isSyncing' = FALSE
    /\ lastOp' = "render"
    /\ UNCHANGED <<page, filterStyle, sortByRecommendation, planQuotes,
                   filterState, filterState2, filteredPlans, topThree, topThree2>>
    /\ UNCHANGED <<recommendedPlans, quoteRequest, compareVars>>
    /\ programmaticSyncs' = 0
    /\ UNCHANGED <<loadVars, formVars, tooltipVars>>

\* handlePageLoadApiCall, the continuation of the one quote request that
\* initialize() starts, when it succeeded: fillChart, then
\* applyPlanVisibilityAndOrder
handlePageLoadApiCall ==
    /\ page = "plan-card-display"
    /\ quoteRequest = "pending"
    /\ quoteRequest' = "done"
    /\ localData.exists
    /\ dom' = applyPlanVisibilityAndOrder(dom, localData, filterStyle)
    /\ lastOp' = "render"
    /\ UNCHANGED <<page, filterStyle, sortByRecommendation, localData, planQuotes,
                   isSyncing, filterState, filterState2, filteredPlans,
                   topThree, topThree2>>
    /\ UNCHANGED <<recommendedPlans, compareVars>>
    /\ programmaticSyncs' = 0
    /\ UNCHANGED <<loadVars, formVars, tooltipVars>>

(***************************************************************************)
(* dpr-results: handlers                                                   *)
(***************************************************************************)
\* syncFormFieldToStorage for a user change of one of the filter fields
syncFormFieldToStorageDpr(fieldName, value) ==
    /\ page = "dpr-results"
    /\ ~isSyncing
    /\ LET stored == updateLocalStorage(localData, fieldName, value)
       IN  /\ localData' = stored
           /\ dom' = applyPlanVisibilityAndOrderDpr(dom, stored, planQuotes,
                                                    sortByRecommendation, FALSE)
    /\ isSyncing' = FALSE
    /\ lastOp' = "render"
    /\ UNCHANGED <<page, filterStyle, sortByRecommendation, planQuotes,
                   filterState, filterState2, filteredPlans, topThree, topThree2>>
    /\ UNCHANGED <<recommendedPlans, quoteRequest, compareVars>>
    /\ UNCHANGED <<programmaticSyncs, loadVars, formVars, tooltipVars>>

\* the continuation of loadAndFetchQuotes when the request succeeded and the
\* results were saved: fillChart returns early on no quotes and otherwise
\* ends with applyPlanVisibilityAndOrder(true)
QuoteFetched(quotes) ==
    /\ page = "dpr-results"
    /\ localData.exists
    /\ planQuotes' = quotes
    /\ IF Len(quotes) = 0
       THEN /\ dom' = dom
            /\ lastOp' = "none"
       ELSE /\ dom' = applyPlanVisibilityAndOrderDpr(dom, localData, quotes,
                                                     sortByRecommendation, TRUE)
            /\ lastOp' = "renderRecommended"
    /\ UNCHANGED <<page, filterStyle, sortByRecommendation, localData, isSyncing,
                   filterState, filterState2, filteredPlans, topThree, topThree2>>
    /\ UNCHANGED <<recommendedPlans, quoteRequest, compareVars>>
    /\ UNCHANGED <<programmaticSyncs, loadVars, formVars, tooltipVars>>

\* the continuation when the request failed: applyPlanVisibilityAndOrder()
QuoteFailed ==
    /\ page = "dpr-results"
    /\ dom' = applyPlanVisibilityAndOrderDpr(dom, localData, planQuotes,
                                             sortByRecommendation, FALSE)
    /\ lastOp' = "render"
    /\ UNCHANGED <<page, filterStyle, sortByRecommendation, localData, planQuotes,
                   isSyncing, filterState, filterState2, filteredPlans,
                   topThree, topThree2>>
    /\ UNCHANGED <<recommendedPlans, quoteRequest, compareVars>>
    /\ UNCHANGED <<programmaticSyncs, loadVars, formVars, tooltipVars>>

NextCard ==
    \/ \E fieldName \in DOMAIN CardFieldValues :
         \E value \in CardFieldValues[fieldName] :
            syncFormFieldToStorage(fieldName, value)
    \/ handlePageLoadApiCall

NextDpr ==
    \/ \E fieldName \in DOMAIN DprFieldValues :
         \E value \in DprFieldValues[fieldName] :
            syncFormFieldToStorageDpr(fieldName, value)
    \/ \E quotes \in QuoteResponses : QuoteFetched(quotes)
    \/ QuoteFailed

Next == NextCard \/ NextDpr

SpecCard == InitCard /\ [][NextCard]_vars

SpecCardStyled == InitCardStyled /\ [][NextCard]_vars

SpecDpr == InitDpr /\ [][NextDpr]_vars

Spec == Init /\ [][Next]_vars

(***************************************************************************)
(* The plan selector of plan-card-display on its own: resolve the stored   *)
(* fields, then select                                                     *)
(***************************************************************************)
SelectStored ==
    {NoLocalData} \cup
    {[exists |-> TRUE,
      data |-> [InsuranceReason |-> r, CoverageTier |-> t, PreExisting |-> pe,
                PreExistingCoverage |-> pec, plans |-> Undefined]] :
        r \in {"0", "1", "2", "all", "", Undefined, Null},
        t \in {"basic", "comprehensive", "all", "", Undefined, Null},
        pe \in {"yes", "no", Undefined},
        pec \in {"yes", "no", Undefined}}

PageIdle ==
    /\ page = "none"
    /\ filterStyle = "showAll"
    /\ sortByRecommendation = FALSE
    /\ planQuotes = <<>>
    /\ dom = <<>>
    /\ isSyncing = FALSE
    /\ quoteRequest = "none"
    /\ CompareIdle
    /\ programmaticSyncs = 0
    /\ LoadIdle
    /\ FormIdle
    /\ TooltipIdle

InitSelect ==
    /\ PageIdle
    /\ localData \in SelectStored
    /\ lastOp = "input"
    /\ SelectorIdle

\* filterState = getCurrentFilterState(); getFilteredPlans(filterState)
SelectPlans ==
    /\ lastOp = "input"
    /\ filterState' = getCurrentFilterState(localData)
    /\ filteredPlans' = getFilteredPlans(getCurrentFilterState(localData))
    /\ lastOp' = "select"
    /\ UNCHANGED <<page, filterStyle, sortByRecommendation, localData, planQuotes,
                   dom, isSyncing, filterState2, topThree, topThree2>>
    /\ UNCHANGED <<recommendedPlans, quoteRequest, compareVars>>
    /\ UNCHANGED <<programmaticSyncs, loadVars, formVars, tooltipVars>>

NextSelect == SelectPlans

SpecSelect == InitSelect /\ [][NextSelect]_vars

(***************************************************************************)
(* determineTopThreePlans on its own, applied to two filter states         *)
(***************************************************************************)
\* (every writer of dpr_local_data stores getFieldValue's `value || null`, so
\* a stored field is a non-empty string, null or absent)
TopThreeInputs ==
    [InsuranceReason : {"0", "1", "2", "all", Undefined},
     CoverageTier : {"basic", "comprehensive", "all", Undefined},
     PreExisting : {"yes", "no", Undefined, Null},
     PreExistingCoverage : {"yes", "no", Undefined, Null}]

InitTopThree ==
    /\ PageIdle
    /\ localData = NoLocalData
    /\ lastOp = "input"
    /\ filterState \in TopThreeInputs
    /\ filterState2 \in TopThreeInputs
    /\ filteredPlans = NoFiltering
    /\ topThree = <<>>
    /\ topThree2 = <<>>
    /\ recommendedPlans = <<>>

DetermineTopThree ==
    /\ lastOp = "input"
    /\ topThree' = determineTopThreePlans(filterState)
    /\ topThree2' = determineTopThreePlans(filterState2)
    /\ lastOp' = "top3"
    /\ UNCHANGED <<page, filterStyle, sortByRecommendation, localData, planQuotes,
                   dom, isSyncing, filterState, filterState2, filteredPlans>>
    /\ UNCHANGED <<recommendedPlans, quoteRequest, compareVars>>
    /\ UNCHANGED <<programmaticSyncs, loadVars, formVars, tooltipVars>>

NextTopThree == DetermineTopThree

SpecTopThree == InitTopThree /\ [][NextTopThree]_vars

(***************************************************************************)
(* getTopPlansFromRecommendation on its own, applied to a quote response   *)
(***************************************************************************)
MaxQuotes == 4

\* the plans a response quotes, in response order
QuotedPlans == <<"LINK 1", "ZONE 2", "LINK 2", "ZONE 3", "LINK 3", "ZONE 4">>

\* the Recommendation a plan quote may carry
Recommendations == {NoRecommendation} \cup (0..4)

\* PlanQuotes of up to MaxQuotes plans
RankedResponses ==
    {[i \in DOMAIN ranks |-> [PlanName |-> QuotedPlans[i], Recommendation |-> ranks[i]]] :
        ranks \in UNION {[1..n -> Recommendations] : n \in 0..MaxQuotes}}

InitRecommend ==
    /\ planQuotes \in RankedResponses
    /\ page = "none"
    /\ filterStyle = "showAll"
    /\ sortByRecommendation = TRUE
    /\ dom = <<>>
    /\ isSyncing = FALSE
    /\ quoteRequest = "none"
    /\ localData = NoLocalData
    /\ lastOp = "input"
    /\ SelectorIdle
    /\ CompareIdle
    /\ programmaticSyncs = 0
    /\ LoadIdle
    /\ FormIdle
    /\ TooltipIdle

\* topThreePlans = getTopPlansFromRecommendation(planQuotes)
TopPlansFromRecommendation ==
    /\ lastOp = "input"
    /\ recommendedPlans' = getTopPlansFromRecommendation(planQuotes)
    /\ lastOp' = "recommend"
    /\ UNCHANGED <<page, filterStyle, sortByRecommendation, localData, planQuotes,
                   dom, isSyncing, filterState, filterState2, filteredPlans,
                   topThree, topThree2, quoteRequest, compareVars>>
    /\ UNCHANGED <<programmaticSyncs, loadVars, formVars, tooltipVars>>

NextRecommend == TopPlansFromRecommendation

SpecRecommend == InitRecommend /\ [][NextRecommend]_vars

(***************************************************************************)
(* plan-card-display with the comparison UI                                *)
(***************************************************************************)
\* the plans whose cards carry a comparison checkbox at initialize()
ComparePlans == <<"LINK 1", "ZONE 2", "LINK 2", "LINK 3">>

\* the checkboxes of a page whose first n compare plans have a card: one
\* wired checkbox each, and, when the plan injector has cloned a card into
\* the page, the clone's checkbox, which the injector disables
CompareCheckboxes(n, d) ==
    [i \in 1..n |-> [plan |-> ComparePlans[i], wired |-> TRUE,
                     checked |-> FALSE, disabled |-> FALSE]]
    \o (IF \E i \in DOMAIN d : d[i].injected
        THEN <<[plan |-> d[CHOOSE i \in DOMAIN d : d[i].injected].plan,
                wired |-> FALSE, checked |-> FALSE, disabled |-> TRUE]>>
        ELSE <<>>)

\* the filter values the user picks while comparing
CompareFieldValues ==
    ("InsuranceReason" :> {"2", "all"}) @@
    ("CoverageTier" :> {"comprehensive", "all"})

CompareStored ==
    {ld \in CardStored :
        ld.exists /\ ld.data.InsuranceReason \in {"2", "all", Undefined}
                  /\ ld.data.CoverageTier \in {"comprehensive", "all", Undefined}}

\* the plan injector clones cards when the page-load quote request has
\* completed ('plans-populated'), so a page with a clone has no request pending
InitCompareWith(markup, n) ==
    /\ dom \in markup
    /\ page = "plan-card-display"
    /\ filterStyle \in {"showAll", "limit", "hideOnly"}
    /\ sortByRecommendation = FALSE
    /\ localData \in CompareStored
    /\ planQuotes = <<>>
    /\ isSyncing = FALSE
    /\ lastOp = "init"
    /\ quoteRequest = IF \E i \in DOMAIN dom : dom[i].injected THEN "done" ELSE "pending"
    /\ SelectorIdle
    /\ selectedPlans = <<>>
    /\ isCompareActive = FALSE
    /\ checkboxes = CompareCheckboxes(n, dom)
    /\ compareSlots = [i \in 1..NumSlots |-> ""]
    /\ hideClass = {}
    /\ removeButtonsHidden = FALSE
    /\ filterControlsDisabled = FALSE
    /\ programmaticSyncs = 0
    /\ LoadIdle
    /\ FormIdle
    /\ TooltipIdle

\* a page of two cards in one container, each compare plan with a checkbox
InitCompareSelect ==
    InitCompareWith({d \in MarkupOfLen(2, BOOLEAN, {""}) :
                        \A i \in DOMAIN d : d[i].parent = 1},
                    Len(ComparePlans))

\* any page, the first two compare plans with a checkbox
InitCompare == InitCompareWith(Markup(BOOLEAN, {""}), 2)

CurrentCompareState ==
    CompareState(selectedPlans, isCompareActive, checkboxes, compareSlots,
                 hideClass, removeButtonsHidden, filterControlsDisabled,
                 dom, localData, isSyncing)

SetCompareState(st) ==
    /\ selectedPlans' = st.selectedPlans
    /\ isCompareActive' = st.isCompareActive
    /\ checkboxes' = st.checkboxes
    /\ compareSlots' = st.compareSlots
    /\ hideClass' = st.hideClass
    /\ removeButtonsHidden' = st.removeButtonsHidden
    /\ filterControlsDisabled' = st.filterControlsDisabled
    /\ dom' = st.dom
    /\ localData' = st.localData
    /\ isSyncing' = st.isSyncing
    /\ programmaticSyncs' = st.programmaticSyncs

\* the user toggles comparison checkbox i (a disabled checkbox takes no
\* input); its change listener runs if it has one
CheckboxChange(i) ==
    /\ page = "plan-card-display"
    /\ i \in DOMAIN checkboxes
    /\ ~checkboxes[i].disabled
    /\ LET toggled == [CurrentCompareState EXCEPT
                          !.checkboxes[i].checked = ~checkboxes[i].checked]
       IN  SetCompareState(IF checkboxes[i].wired
                           THEN checkboxChangeHandler(toggled, i, filterStyle)
                           ELSE toggled)
    /\ lastOp' = "select"
    /\ UNCHANGED <<page, filterStyle, sortByRecommendation, planQuotes,
                   filterState, filterState2, filteredPlans, topThree, topThree2,
                   recommendedPlans, quoteRequest>>
    /\ UNCHANGED <<loadVars, formVars, tooltipVars>>

\* a click event inside the remove button of slot k
RemoveClick(k) ==
    /\ page = "plan-card-display"
    /\ k \in DOMAIN compareSlots
    /\ SetCompareState(removeClickHandler(CurrentCompareState, k, filterStyle))
    /\ lastOp' = "remove"
    /\ UNCHANGED <<page, filterStyle, sortByRecommendation, planQuotes,
                   filterState, filterState2, filteredPlans, topThree, topThree2,
                   recommendedPlans, quoteRequest>>
    /\ UNCHANGED <<loadVars, formVars, tooltipVars>>

\* a click on the compare button
CompareButtonClick ==
    /\ page = "plan-card-display"
    /\ Len(compareSlots) > 0
    /\ SetCompareState(compareButtonClickHandler(CurrentCompareState, filterStyle))
    /\ lastOp' = IF isCompareActive THEN "clear" ELSE "activate"
    /\ UNCHANGED <<page, filterStyle, sortByRecommendation, planQuotes,
                   filterState, filterState2, filteredPlans, topThree, topThree2,
                   recommendedPlans, quoteRequest>>
    /\ UNCHANGED <<loadVars, formVars, tooltipVars>>

NextCompare ==
    \/ \E fieldName \in DOMAIN CompareFieldValues :
         \E value \in CompareFieldValues[fieldName] :
            syncFormFieldToStorage(fieldName, value)
    \/ handlePageLoadApiCall
    \/ \E i \in 1..(Len(ComparePlans) + 1) : CheckboxChange(i)
    \/ \E k \in 1..NumSlots : RemoveClick(k)
    \/ CompareButtonClick

SpecCompareSelect == InitCompareSelect /\ [][NextCompare]_vars

SpecCompare == InitCompare /\ [][NextCompare]_vars

(***************************************************************************)
(* plan-card-display: page load and the 'plans-populated' event            *)
(*                                                                         *)
(* quoteRequest follows handlePageLoadApiCall: "unstarted" before          *)
(* initialize(), "pending" while fetchQuotes is awaited, then "succeeded", *)
(* "failed" or "invalid" (validation failed, no request issued).           *)
(* plansPopulatedData is <<>> while window.__plansPopulatedData is unset   *)
(* and <<success>> afterwards.  injector is "unloaded" until plan-injector *)
(* has run its initialize(), "listening" while its once-listener is        *)
(* registered and "fired" after the listener has run.                      *)
(***************************************************************************)
\* value == null || value === ''
isFieldMissing(value) == value \in {Undefined, Null, ""}

\* validateApiFields of plan-card-display
validateApiFields(ld, lf) ==
    /\ ld.exists
    /\ ~isFieldMissing(lf.CoverageType)
    /\ ~isFieldMissing(lf.Age)
    /\ ~isFieldMissing(lf.Province)
    /\ (~LooseEqNum(lf.CoverageType, 0) => ~isFieldMissing(lf.Dependents))

\* the non-filter fields dpr_local_data may hold when the page loads
LoadStoredFields ==
    [CoverageType : {"0", "1"}, Dependents : {"1", Undefined},
     Age : {"3", Undefined}, Province : {"1"}]

InitLoad ==
    /\ dom \in Markup({FALSE}, {""})
    /\ page = "plan-card-display"
    /\ filterStyle \in {"showAll", "limit", "hideOnly"}
    /\ sortByRecommendation = FALSE
    /\ localData \in {ld \in CardStored :
                         ld.exists => ld.data.InsuranceReason \in {"2", Undefined}}
    /\ localFields \in LoadStoredFields
    /\ planQuotes = <<>>
    /\ isSyncing = FALSE
    /\ lastOp = "init"
    /\ quoteRequest = "unstarted"
    /\ SelectorIdle
    /\ CompareIdle
    /\ programmaticSyncs = 0
    /\ apiSuccess = FALSE
    /\ populatedTimer = FALSE
    /\ plansPopulatedData = <<>>
    /\ populatedEvents = <<>>
    /\ injector = "unloaded"
    /\ injections = 0
    /\ formValues = <<>>
    /\ sessionData = <<>>
    /\ urlParams = <<>>
    /\ sessionOnlyFields = {}
    /\ savedModalValues = <<>>
    /\ isFormSubmitting = FALSE
    /\ modalOpen = FALSE
    /\ apiRequest = {}
    /\ resultsData = "none"
    /\ modalSnapshot = <<>>
    /\ TooltipIdle

LoadFrame ==
    UNCHANGED <<page, filterStyle, sortByRecommendation, localData, planQuotes,
                isSyncing, filterState, filterState2, filteredPlans, topThree,
                topThree2, recommendedPlans, compareVars, programmaticSyncs,
                formVars, tooltipVars>>

\* initialize() runs handlePageLoadApiCall up to its first await: a failed
\* validation hides the dynamic blocks and falls through to Step 5, which
\* queues the setTimeout callback; otherwise the request is issued
PageLoadStart ==
    /\ page = "plan-card-display"
    /\ quoteRequest = "unstarted"
    /\ IF validateApiFields(localData, localFields)
       THEN /\ quoteRequest' = "pending"
            /\ populatedTimer' = FALSE
       ELSE /\ quoteRequest' = "invalid"
            /\ populatedTimer' = TRUE
    /\ apiSuccess' = FALSE
    /\ lastOp' = "start"
    /\ UNCHANGED <<dom, plansPopulatedData, populatedEvents, injector, injections>>
    /\ LoadFrame

\* the continuation after `await fetchQuotes` with a response: fillChart,
\* applyPlanVisibilityAndOrder, apiSuccess = true, then Step 5
QuoteRequestSucceeded ==
    /\ page = "plan-card-display"
    /\ quoteRequest = "pending"
    /\ quoteRequest' = "succeeded"
    /\ dom' = applyPlanVisibilityAndOrder(dom, localData, filterStyle)
    /\ apiSuccess' = TRUE
    /\ populatedTimer' = TRUE
    /\ lastOp' = "render"
    /\ UNCHANGED <<plansPopulatedData, populatedEvents, injector, injections>>
    /\ LoadFrame

\* the continuation when fetchQuotes threw or returned nothing: the dynamic
\* blocks are hidden, apiSuccess = false, then Step 5
QuoteRequestFailed ==
    /\ page = "plan-card-display"
    /\ quoteRequest = "pending"
    /\ quoteRequest' = "failed"
    /\ apiSuccess' = FALSE
    /\ populatedTimer' = TRUE
    /\ lastOp' = "none"
    /\ UNCHANGED <<dom, plansPopulatedData, populatedEvents, injector, injections>>
    /\ LoadFrame

PlansPopulatedFlagUnset(success) == <<>>

\* window.__plansPopulatedData = { success: apiSuccess }
PlansPopulatedFlag(success) == <<success>>

\* the setTimeout callback of Step 5: the flag is stored, then the event is
\* dispatched, which runs the injector's listener if it is registered; the
\* listener is registered with { once: true }
PlansPopulatedTimer ==
    /\ page = "plan-card-display"
    /\ populatedTimer
    /\ populatedTimer' = FALSE
    /\ plansPopulatedData' = PlansPopulatedFlag(apiSuccess)
    /\ populatedEvents' = Append(populatedEvents, apiSuccess)
    /\ IF injector = "listening"
       THEN /\ injector' = "fired"
            /\ injections' = injections + 1
       ELSE UNCHANGED <<injector, injections>>
    /\ lastOp' = "dispatch"
    /\ UNCHANGED <<dom, quoteRequest, apiSuccess>>
    /\ LoadFrame

\* initialize() of plan-injector: registers the listener and nothing else
InjectorInitialize ==
    /\ page = "plan-card-display"
    /\ injector = "unloaded"
    /\ injector' = "listening"
    /\ lastOp' = "injector"
    /\ UNCHANGED <<dom, quoteRequest, apiSuccess, populatedTimer,
                   plansPopulatedData, populatedEvents, injections>>
    /\ LoadFrame

NextLoad ==
    \/ PageLoadStart
    \/ QuoteRequestSucceeded
    \/ QuoteRequestFailed
    \/ PlansPopulatedTimer
    \/ InjectorInitialize

SpecLoad == InitLoad /\ [][NextLoad]_vars

\* both scripts run their initialize(), the fetch settles and a queued
\* timer runs
SpecLoadLive ==
    /\ SpecLoad
    /\ WF_vars(PageLoadStart)
    /\ WF_vars(QuoteRequestSucceeded \/ QuoteRequestFailed)
    /\ WF_vars(PlansPopulatedTimer)
    /\ WF_vars(InjectorInitialize)

(***************************************************************************)
(* dpr-results: value management, quote modal and quote requests           *)
(*                                                                         *)
(* A form control is [kind, value]: a radio group, a select or a text      *)
(* input, and its current value (Null when empty).  formValues maps each   *)
(* form to its controls.  localFields and urlParams map a field name to    *)
(* its value, Undefined when the key is absent.  The pages considered      *)
(* carry no plan element, so the renders of the handlers change nothing.   *)
(***************************************************************************)
\* fieldsToSave of saveModalFieldValues
ModalFields == {"CoverageType", "Dependents", "Age", "Province"}

PersonalFields ==
    {"FirstName", "LastName", "PhoneNumber", "EmailAddress", "MarketingPermission"}

\* the form of the quote modal and a second form of the page
QuoteForm == "quote-form"
SideForm == "side-form"

\* the field names of the forms of the page
FormFieldNames == ModalFields \cup {"EmailAddress"}

Control(kind, value) == [kind |-> kind, value |-> value]

\* the forms as the markup delivers them, nothing selected or typed
FormMarkups ==
    {(QuoteForm :> [f \in ModalFields |->
                      Control(IF f = "CoverageType" THEN "radio"
                              ELSE IF f = "Dependents" THEN dependentsKind
                              ELSE "select", Null)])
     @@ (SideForm :> [f \in {"Age", "EmailAddress"} |->
                        Control(IF f = "Age" THEN "select" ELSE "text", Null)]) :
        dependentsKind \in {"radio", "select"}}

\* elements.value || null
getFieldValue(forms, form, fieldName) ==
    IF fieldName \in DOMAIN forms[form]
    THEN Or(forms[form][fieldName].value, Null)
    ELSE Null

\* setFieldValue on one control: a radio group checks the radio whose value
\* matches and does nothing when none matches; a select or a text input
\* takes the value, an empty one for null
SetControl(c, value) ==
    IF c.kind = "radio"
    THEN IF isFieldMissing(value) THEN c ELSE [c EXCEPT !.value = value]
    ELSE [c EXCEPT !.value = IF isFieldMissing(value) THEN Null ELSE value]

\* setFieldValue(form, fieldName, value) for every form that has the field
syncAllFieldsWithName(forms, fieldName, value) ==
    [form \in DOMAIN forms |->
        [g \in DOMAIN forms[form] |->
            IF g = fieldName THEN SetControl(forms[form][g], value)
            ELSE forms[form][g]]]

\* the query string rebuilt from dpr_local_data without the session-only
\* fields and the empty values
syncAllParamsFromStorage(lf, sessionOnly) ==
    [f \in DOMAIN lf |->
        IF f \notin sessionOnly /\ lf[f] \notin {Null, Undefined, ""}
        THEN lf[f] ELSE Undefined]

\* validateRequiredFields of dpr-results
validateRequiredFields(ld, lf) ==
    /\ ld.exists
    /\ \A f \in {"CoverageType", "Age", "Province"} : ~isFieldMissing(lf[f])
    /\ \A f \in {"CoverageTier", "InsuranceReason"} : ~isFieldMissing(ld.data[f])
    /\ (~LooseEqNum(lf.CoverageType, 0) /\ ~LooseEqNum(lf.CoverageType, 3) =>
           ~isFieldMissing(lf.Dependents))
    /\ (~LooseEqNum(ld.data.InsuranceReason, 2) =>
           ~isFieldMissing(ld.data.PreExisting))
    /\ (~LooseEqNum(ld.data.InsuranceReason, 2) /\ ld.data.PreExisting # "no" =>
           ~isFieldMissing(ld.data.PreExistingCoverage))

\* where prefillAllForms takes the value of a field from
PrefillSource(url, lf, sess, f) ==
    IF ~Falsy(url[f]) THEN "url"
    ELSE IF lf[f] \notin {Undefined, Null} THEN "local"
    ELSE IF sess[f] \notin {Undefined, Null} THEN "session"
    ELSE "none"

PrefillValue(url, lf, sess, f) ==
    CASE PrefillSource(url, lf, sess, f) = "url" -> url[f]
      [] PrefillSource(url, lf, sess, f) = "local" -> lf[f]
      [] PrefillSource(url, lf, sess, f) = "session" -> sess[f]
      [] OTHER -> Null

\* what the page may find when it loads: dpr_local_data written by the
\* quote form (no personal field), dpr_session_data with or without an
\* e-mail address, a query string with or without an Age parameter
FormsStoredFields ==
    {[f \in FormFieldNames |->
        CASE f = "CoverageType" -> coverageType
          [] f = "Dependents" -> dependents
          [] f = "EmailAddress" -> Undefined
          [] OTHER -> "1"] :
        coverageType \in {"0", "1"}, dependents \in {"1", Undefined}}

FormsSessionData ==
    {[f \in FormFieldNames |-> IF f = "EmailAddress" THEN email ELSE Undefined] :
        email \in {"a", Undefined}}

FormsUrlParams ==
    {[f \in FormFieldNames |-> IF f = "Age" THEN age ELSE Undefined] :
        age \in {"2", Undefined}}

FormsStored ==
    {[exists |-> TRUE,
      data |-> [InsuranceReason |-> "2", CoverageTier |-> "basic",
                PreExisting |-> Undefined, PreExistingCoverage |-> Undefined,
                plans |-> Undefined]]}

\* the values the user gives to the fields
FormInputs ==
    [f \in FormFieldNames |->
        CASE f = "CoverageType" -> {"0", "1"}
          [] f = "Dependents" -> {"1", "2"}
          [] f = "Age" -> {"1", "2"}
          [] f = "Province" -> {"1"}
          [] OTHER -> {"a"}]

InitForms ==
    /\ page = "dpr-results"
    /\ dom = <<>>
    /\ filterStyle = "showAll"
    /\ sortByRecommendation = FALSE
    /\ localData \in FormsStored
    /\ planQuotes = <<>>
    /\ isSyncing = FALSE
    /\ lastOp = "init"
    /\ quoteRequest = "unstarted"
    /\ SelectorIdle
    /\ CompareIdle
    /\ programmaticSyncs = 0
    /\ LoadIdle
    /\ formValues \in FormMarkups
    /\ localFields \in FormsStoredFields
    /\ sessionData \in FormsSessionData
    /\ urlParams \in FormsUrlParams
    /\ sessionOnlyFields = {}
    /\ savedModalValues = <<>>
    /\ isFormSubmitting = FALSE
    /\ modalOpen = FALSE
    /\ apiRequest = {}
    /\ resultsData = "none"
    /\ modalSnapshot = <<>>
    /\ TooltipIdle

FormsFrame ==
    UNCHANGED <<page, filterStyle, sortByRecommendation, localData, planQuotes, dom,
                isSyncing, filterState, filterState2, filteredPlans, topThree,
                topThree2, recommendedPlans, compareVars, programmaticSyncs,
                loadVars, resultsData, tooltipVars>>

\* initialize(): prefillAllForms (no listener is attached yet), the
\* listeners, then handlePageLoadApiCall up to its first await: a failed
\* validation redirects to the quote form, otherwise the request is issued
PrefillAndLoad ==
    /\ page = "dpr-results"
    /\ quoteRequest = "unstarted"
    /\ LET source(f) == PrefillSource(urlParams, localFields, sessionData, f)
           stored == [f \in DOMAIN localFields |->
                        IF source(f) = "url" THEN urlParams[f] ELSE localFields[f]]
           sessionOnly == {f \in DOMAIN localFields : source(f) = "session"}
       IN  /\ localFields' = stored
           /\ sessionOnlyFields' = sessionOnly
           /\ formValues' =
                 [form \in DOMAIN formValues |->
                    [g \in DOMAIN formValues[form] |->
                        IF source(g) = "none" THEN formValues[form][g]
                        ELSE SetControl(formValues[form][g],
                                        PrefillValue(urlParams, localFields,
                                                     sessionData, g))]]
           /\ urlParams' =
                 IF \A f \in DOMAIN urlParams : urlParams[f] = Undefined
                 THEN syncAllParamsFromStorage(stored, sessionOnly)
                 ELSE urlParams
           /\ IF validateRequiredFields(localData, stored)
              THEN /\ quoteRequest' = "loaded"
                   /\ apiRequest' = {"page-load"}
              ELSE /\ quoteRequest' = "redirected"
                   /\ apiRequest' = {}
    /\ lastOp' = "prefill"
    /\ UNCHANGED <<sessionData, savedModalValues, isFormSubmitting, modalOpen,
                   modalSnapshot>>
    /\ FormsFrame

\* the user gives the field of a form a value: syncFormFieldToStorage stores
\* it in sessionStorage if the field is session-only and in localStorage
\* otherwise, writes it to every form (the events of these writes return at
\* the guard) and rebuilds the query string; the quote form is reachable
\* while the modal is open, the other form while it is closed
FieldChange(form, fieldName, value) ==
    /\ page = "dpr-results"
    /\ quoteRequest = "loaded"
    /\ ~isSyncing
    /\ fieldName \in DOMAIN formValues[form]
    /\ (form = QuoteForm) = modalOpen
    /\ LET typed == [formValues EXCEPT ![form][fieldName].value = value]
           read == getFieldValue(typed, form, fieldName)
           sessionOnly == fieldName \in sessionOnlyFields
           stored == IF sessionOnly THEN localFields
                     ELSE [localFields EXCEPT ![fieldName] = read]
       IN  /\ localFields' = stored
           /\ sessionData' = IF sessionOnly
                             THEN [sessionData EXCEPT ![fieldName] = read]
                             ELSE sessionData
           /\ formValues' = syncAllFieldsWithName(typed, fieldName, read)
           /\ urlParams' = IF sessionOnly THEN urlParams
                           ELSE syncAllParamsFromStorage(stored, sessionOnlyFields)
    /\ modalSnapshot' = IF modalOpen /\ fieldName \in ModalFields
                        THEN [modalSnapshot EXCEPT !.edited = TRUE]
                        ELSE modalSnapshot
    /\ lastOp' = "field"
    /\ UNCHANGED <<quoteRequest, sessionOnlyFields, savedModalValues,
                   isFormSubmitting, modalOpen, apiRequest>>
    /\ FormsFrame

\* saveModalFieldValues: the values of the quote form
saveModalFieldValues(forms) ==
    [f \in ModalFields |-> getFieldValue(forms, QuoteForm, f)]

\* the click listener of the open button
OpenModal ==
    /\ page = "dpr-results"
    /\ quoteRequest = "loaded"
    /\ ~modalOpen
    /\ savedModalValues' = saveModalFieldValues(formValues)
    /\ modalOpen' = TRUE
    /\ modalSnapshot' = [local |-> localFields, forms |-> formValues,
                         edited |-> FALSE, submitted |-> FALSE]
    /\ lastOp' = "open"
    /\ UNCHANGED <<quoteRequest, formValues, localFields, sessionData, urlParams,
                   sessionOnlyFields, isFormSubmitting, apiRequest>>
    /\ FormsFrame

ModalState(forms, lf, url, saved, submitting) ==
    [formValues |-> forms, localFields |-> lf, urlParams |-> url,
     savedModalValues |-> saved, isFormSubmitting |-> submitting]

RECURSIVE RestoreFields(_, _, _)
\* the loop of resetModalFieldValues over the saved entries
RestoreFields(st, saved, fields) ==
    IF fields = {} THEN st
    ELSE LET f == CHOOSE x \in fields : TRUE
         IN  RestoreFields(
                 [st EXCEPT !.formValues = syncAllFieldsWithName(@, f, saved[f]),
                            !.localFields[f] = saved[f]],
                 saved, fields \ {f})

\* nothing to restore without saved values; otherwise, with isSyncing set,
\* every saved value goes back to the forms and to localStorage, the query
\* string is rebuilt and the saved values are dropped
resetModalFieldValues(st, sessionOnly) ==
    IF st.savedModalValues = <<>> THEN st
    ELSE LET restored == RestoreFields(st, st.savedModalValues, ModalFields)
         IN  [restored EXCEPT
                 !.urlParams = syncAllParamsFromStorage(restored.localFields,
                                                        sessionOnly),
                 !.savedModalValues = <<>>]

\* the close event of the dialog
handleQuoteModalClose(st, sessionOnly) ==
    IF st.isFormSubmitting THEN [st EXCEPT !.isFormSubmitting = FALSE]
    ELSE resetModalFieldValues(st, sessionOnly)

CurrentModalState ==
    ModalState(formValues, localFields, urlParams, savedModalValues,
               isFormSubmitting)

SetModalState(st) ==
    /\ formValues' = st.formValues
    /\ localFields' = st.localFields
    /\ urlParams' = st.urlParams
    /\ savedModalValues' = st.savedModalValues
    /\ isFormSubmitting' = st.isFormSubmitting

\* a click on the cancel button: its listener restores the values, then the
\* modal library closes the dialog, which fires the close event
CancelClick ==
    /\ page = "dpr-results"
    /\ modalOpen
    /\ SetModalState(handleQuoteModalClose(
                         resetModalFieldValues(CurrentModalState, sessionOnlyFields),
                         sessionOnlyFields))
    /\ modalOpen' = FALSE
    /\ lastOp' = "cancel"
    /\ UNCHANGED <<quoteRequest, sessionData, sessionOnlyFields, apiRequest,
                   modalSnapshot>>
    /\ FormsFrame

\* the dialog is closed by Escape or by its backdrop
CloseModal ==
    /\ page = "dpr-results"
    /\ modalOpen
    /\ SetModalState(handleQuoteModalClose(CurrentModalState, sessionOnlyFields))
    /\ modalOpen' = FALSE
    /\ lastOp' = "close"
    /\ UNCHANGED <<quoteRequest, sessionData, sessionOnlyFields, apiRequest,
                   modalSnapshot>>
    /\ FormsFrame

\* a click on Get Quote (the button is disabled while its request is in
\* flight): isFormSubmitting is set and handleModalButtonClick runs up to
\* the await of loadAndFetchQuotes, which issues the request whenever
\* dpr_local_data exists
GetQuoteClick ==
    /\ page = "dpr-results"
    /\ modalOpen
    /\ "modal" \notin apiRequest
    /\ isFormSubmitting' = TRUE
    /\ apiRequest' = IF localData.exists THEN apiRequest \cup {"modal"}
                     ELSE apiRequest
    /\ modalSnapshot' = [modalSnapshot EXCEPT !.submitted = TRUE]
    /\ lastOp' = "get-quote"
    /\ UNCHANGED <<quoteRequest, formValues, localFields, sessionData, urlParams,
                   sessionOnlyFields, savedModalValues, modalOpen>>
    /\ FormsFrame

\* a quote request settles: with a response, loadAndFetchQuotes stores it in
\* dpr_results_data and its caller fills the chart from there; without one
\* nothing is stored.  The continuation of handleModalButtonClick then calls
\* modal.close() in either case, which fires the close event if the dialog
\* is open
RequestSettles(request, ok) ==
    /\ page = "dpr-results"
    /\ request \in apiRequest
    /\ apiRequest' = apiRequest \ {request}
    /\ resultsData' = IF ok THEN request ELSE resultsData
    /\ IF request = "modal" /\ modalOpen
       THEN /\ SetModalState(handleQuoteModalClose(CurrentModalState,
                                                   sessionOnlyFields))
            /\ modalOpen' = FALSE
       ELSE UNCHANGED <<formValues, localFields, urlParams, savedModalValues,
                        isFormSubmitting, modalOpen>>
    /\ lastOp' = IF ok THEN "settled" ELSE "failed"
    /\ UNCHANGED <<quoteRequest, sessionData, sessionOnlyFields, modalSnapshot>>
    /\ UNCHANGED <<page, filterStyle, sortByRecommendation, localData, planQuotes,
                   dom, isSyncing, filterState, filterState2, filteredPlans,
                   topThree, topThree2, recommendedPlans, compareVars,
                   programmaticSyncs, loadVars, tooltipVars>>

NextForms ==
    \/ PrefillAndLoad
    \/ \E form \in {QuoteForm, SideForm} : \E fieldName \in FormFieldNames :
          \E value \in FormInputs[fieldName] : FieldChange(form, fieldName, value)
    \/ OpenModal
    \/ CancelClick
    \/ CloseModal
    \/ GetQuoteClick
    \/ \E request \in {"page-load", "modal"} : \E ok \in BOOLEAN :
          RequestSettles(request, ok)

SpecForms == InitForms /\ [][NextForms]_vars

(***************************************************************************)
(* tooltip-system: simple tooltips                                         *)
(*                                                                         *)
(* A component is [present, static, display, initialized, handlers,        *)
(* outside]: whether it is in the document, its data-tooltip-style, the    *)
(* inline display of its description, the data-tooltip-initialized flag of *)
(* its icon, the click handlers of its icon in the order they were added   *)
(* (each is the component list its closeOthers closes over), and whether   *)
(* the document carries an outside-click listener for it.                  *)
(***************************************************************************)
MaxTooltips == 3

InDocument(tt) == {i \in DOMAIN tt : tt[i].present}

\* initialize(root) of the first function scope, components being
\* root.querySelectorAll('[data-tooltip="component"]'): a component whose
\* icon is marked is skipped; the others get a click handler on the icon,
\* the mark and, unless static, an outside-click listener on the document
initialize(tt, components) ==
    [i \in DOMAIN tt |->
        IF i \in components /\ ~tt[i].initialized
        THEN [tt[i] EXCEPT !.handlers = Append(@, components),
                           !.initialized = TRUE,
                           !.outside = @ \/ ~tt[i].static]
        ELSE tt[i]]

\* initialize() of the second function scope: every component of the
\* document gets a click handler on the icon and, unless static, an
\* outside-click listener; no mark is read or written
initializeSecondScope(tt) ==
    [i \in DOMAIN tt |->
        IF i \in InDocument(tt)
        THEN [tt[i] EXCEPT !.handlers = Append(@, InDocument(tt)),
                           !.outside = @ \/ ~tt[i].static]
        ELSE tt[i]]

\* closeOthers of a handler: the descriptions of the other components of
\* its list get display 'none'
closeOthers(tt, i, components) ==
    [j \in DOMAIN tt |->
        IF j \in components /\ j # i THEN [tt[j] EXCEPT !.display = "none"]
        ELSE tt[j]]

\* one click handler of icon i
toggleTooltip(tt, i, components) ==
    IF tt[i].display = "block"
    THEN [tt EXCEPT ![i].display = "none"]
    ELSE [closeOthers(tt, i, components) EXCEPT ![i].display = "block"]

RECURSIVE RunClickHandlers(_, _, _)
\* the click handlers of icon i, in the order they were added
RunClickHandlers(tt, i, handlers) ==
    IF handlers = <<>> THEN tt
    ELSE RunClickHandlers(toggleTooltip(tt, i, Head(handlers)), i, Tail(handlers))

\* the outside-click listeners of the document for a click inside component
\* target (0: inside none)
documentClick(tt, target) ==
    [j \in DOMAIN tt |->
        IF tt[j].outside /\ j # target THEN [tt[j] EXCEPT !.display = "none"]
        ELSE tt[j]]

\* the components the markup may carry, and the ones that content added
\* later brings
TooltipMarkups ==
    [1..MaxTooltips ->
        [present : BOOLEAN, static : BOOLEAN, display : {""},
         initialized : {FALSE}, handlers : {<<>>}, outside : {FALSE}]]

\* the roots TooltipSystem.initialize is called with, as the components
\* beneath them
TooltipRoots == SUBSET (1..MaxTooltips) \ {{}}

InitTooltips ==
    /\ page = "plan-card-display"
    /\ dom = <<>>
    /\ filterStyle = "showAll"
    /\ sortByRecommendation = FALSE
    /\ localData = NoLocalData
    /\ planQuotes = <<>>
    /\ isSyncing = FALSE
    /\ lastOp = "init"
    /\ quoteRequest = "done"
    /\ SelectorIdle
    /\ CompareIdle
    /\ programmaticSyncs = 0
    /\ LoadIdle
    /\ FormIdle
    /\ tooltipScript = "unloaded"
    /\ tooltips \in TooltipMarkups
    /\ lastIcon = 0

TooltipFrame ==
    UNCHANGED <<page, filterStyle, sortByRecommendation, localData, planQuotes, dom,
                isSyncing, filterState, filterState2, filteredPlans, topThree,
                topThree2, recommendedPlans, quoteRequest, compareVars,
                programmaticSyncs, loadVars, formVars>>

\* the script runs for the first time (Webflow ready, load, or at once):
\* initializeAll() of the first function scope, then initialize() of the
\* second
TooltipScriptLoad ==
    /\ tooltipScript = "unloaded"
    /\ tooltips # <<>>
    /\ tooltipScript' = "loaded"
    /\ tooltips' = initializeSecondScope(initialize(tooltips, InDocument(tooltips)))
    /\ lastOp' = "tooltips-loaded"
    /\ UNCHANGED lastIcon
    /\ TooltipFrame

\* content with a tooltip component is added to the document
TooltipContentAdded(i) ==
    /\ tooltips # <<>>
    /\ i \in DOMAIN tooltips
    /\ ~tooltips[i].present
    /\ tooltips' = [tooltips EXCEPT ![i].present = TRUE]
    /\ lastOp' = "content"
    /\ UNCHANGED <<tooltipScript, lastIcon>>
    /\ TooltipFrame

\* the 'plans-populated' listener: initializeAll()
TooltipPlansPopulated ==
    /\ tooltipScript = "loaded"
    /\ tooltips' = initialize(tooltips, InDocument(tooltips))
    /\ lastOp' = "tooltips-populated"
    /\ UNCHANGED <<tooltipScript, lastIcon>>
    /\ TooltipFrame

\* window.TooltipSystem.initialize(root)
TooltipSystemInitialize(root) ==
    /\ tooltipScript = "loaded"
    /\ tooltips' = initialize(tooltips, root \cap InDocument(tooltips))
    /\ lastOp' = "tooltips-initialize"
    /\ UNCHANGED <<tooltipScript, lastIcon>>
    /\ TooltipFrame

\* a click on icon i: its handlers run and stop the propagation; an icon
\* without handler lets the click reach the document
IconClick(i) ==
    /\ tooltips # <<>>
    /\ i \in InDocument(tooltips)
    /\ tooltips' = IF tooltips[i].handlers = <<>>
                   THEN documentClick(tooltips, i)
                   ELSE RunClickHandlers(tooltips, i, tooltips[i].handlers)
    /\ lastIcon' = i
    /\ lastOp' = "icon"
    /\ UNCHANGED tooltipScript
    /\ TooltipFrame

\* a click outside every tooltip component
OutsideClick ==
    /\ tooltips # <<>>
    /\ tooltips' = documentClick(tooltips, 0)
    /\ lastIcon' = 0
    /\ lastOp' = "outside"
    /\ UNCHANGED tooltipScript
    /\ TooltipFrame

NextTooltips ==
    \/ TooltipScriptLoad
    \/ \E i \in 1..MaxTooltips : TooltipContentAdded(i)
    \/ TooltipPlansPopulated
    \/ \E root \in TooltipRoots : TooltipSystemInitialize(root)
    \/ \E i \in 1..MaxTooltips : IconClick(i)
    \/ OutsideClick

SpecTooltips == InitTooltips /\ [][NextTooltips]_vars

(***************************************************************************)
(* Exceptions in the guarded handlers                                      *)
(*                                                                         *)
(* The storage helpers catch their own exceptions; what leaves a guarded   *)
(* handler by exception is the render (plan-card-display) or the rewrite   *)
(* of the query string, history.replaceState (dpr-results).                *)
(***************************************************************************)
isSyncingKeptOnThrow(thrownBy) == TRUE

\* finally { isSyncing = false }
isSyncingAfterThrow(thrownBy) == FALSE

\* plan-card-display: syncFormFieldToStorage for a user change of a filter
\* control when applyPlanVisibilityAndOrder throws: the handler returns at
\* the guard if isSyncing is set; otherwise storage is written, the render
\* does not happen and the finally block runs
syncFormFieldToStorageThrows(fieldName, value) ==
    /\ page = "plan-card-display"
    /\ ~filterControlsDisabled
    /\ IF isSyncing
       THEN /\ lastOp' = "ignored"
            /\ UNCHANGED <<localData, isSyncing>>
       ELSE /\ localData' = IF value = "all"
                            THEN removeLocalStorageField(localData, fieldName)
                            ELSE updateLocalStorage(localData, fieldName, value)
            /\ isSyncing' = isSyncingAfterThrow("applyPlanVisibilityAndOrder")
            /\ lastOp' = "thrown"
    /\ UNCHANGED <<page, filterStyle, sortByRecommendation, planQuotes, dom,
                   filterState, filterState2, filteredPlans, topThree, topThree2>>
    /\ UNCHANGED <<recommendedPlans, quoteRequest, compareVars>>
    /\ programmaticSyncs' = 0
    /\ UNCHANGED <<loadVars, formVars, tooltipVars>>

SyncFrame ==
    UNCHANGED <<page, filterStyle, sortByRecommendation, localData, planQuotes, dom,
                filterState, filterState2, filteredPlans, topThree,
                topThree2, recommendedPlans, compareVars, programmaticSyncs,
                loadVars, resultsData, tooltipVars>>

\* dpr-results: syncFormFieldToStorage for a user change of a field that is
\* not session-only when syncAllParamsFromStorage throws: the handler
\* returns at the guard if isSyncing is set (the control keeps what the user
\* gave it, nothing is stored); otherwise storage and the forms are written,
\* the query string is not, and the finally block runs
FieldChangeThrows(form, fieldName, value) ==
    /\ page = "dpr-results"
    /\ quoteRequest = "loaded"
    /\ fieldName \in DOMAIN formValues[form]
    /\ fieldName \notin sessionOnlyFields
    /\ (form = QuoteForm) = modalOpen
    /\ LET typed == [formValues EXCEPT ![form][fieldName].value = value]
           read == getFieldValue(typed, form, fieldName)
       IN  IF isSyncing
           THEN /\ formValues' = typed
                /\ lastOp' = "ignored"
                /\ UNCHANGED <<localFields, isSyncing>>
           ELSE /\ localFields' = [localFields EXCEPT ![fieldName] = read]
                /\ formValues' = syncAllFieldsWithName(typed, fieldName, read)
                /\ isSyncing' = isSyncingAfterThrow("syncAllParamsFromStorage")
                /\ lastOp' = "thrown"
    /\ modalSnapshot' = IF modalOpen /\ fieldName \in ModalFields
                        THEN [modalSnapshot EXCEPT !.edited = TRUE]
                        ELSE modalSnapshot
    /\ UNCHANGED <<quoteRequest, sessionData, urlParams, sessionOnlyFields,
                   savedModalValues, isFormSubmitting, modalOpen, apiRequest>>
    /\ SyncFrame

\* a click on the cancel button when syncAllParamsFromStorage throws in
\* resetModalFieldValues: the saved values are restored to the forms and to
\* localStorage, the query string is not rewritten, the finally block runs
\* and the saved values are not dropped; the close event that follows
\* consumes isFormSubmitting or runs into the same exception
CancelClickThrows ==
    /\ page = "dpr-results"
    /\ modalOpen
    /\ savedModalValues # <<>>
    /\ LET restored == RestoreFields(CurrentModalState, savedModalValues, ModalFields)
       IN  /\ formValues' = restored.formValues
           /\ localFields' = restored.localFields
    /\ isSyncing' = isSyncingAfterThrow("syncAllParamsFromStorage")
    /\ isFormSubmitting' = FALSE
    /\ modalOpen' = FALSE
    /\ lastOp' = "thrown"
    /\ UNCHANGED <<quoteRequest, sessionData, urlParams, sessionOnlyFields,
                   savedModalValues, apiRequest, modalSnapshot>>
    /\ SyncFrame

\* either page before its first event; the results page with an e-mail
\* address in sessionStorage and no query string
InitSync ==
    \/ InitCard
    \/ /\ InitForms
       /\ sessionData.EmailAddress = "a"
       /\ urlParams.Age = Undefined

NextSync ==
    \/ NextCard
    \/ NextForms
    \/ \E fieldName \in DOMAIN CardFieldValues :
         \E value \in CardFieldValues[fieldName] :
            syncFormFieldToStorageThrows(fieldName, value)
    \/ \E form \in {QuoteForm, SideForm} : \E fieldName \in FormFieldNames :
          \E value \in FormInputs[fieldName] :
             FieldChangeThrows(form, fieldName, value)
    \/ CancelClickThrows

SpecSync == InitSync /\ [][NextSync]_vars

(***************************************************************************)
(* Properties of the selectors                                             *)
(***************************************************************************)
\* C1: for every (InsuranceReason, CoverageTier) pair that is a key of the
\* static scenario table, getFilteredPlans returns that entry's list, same
\* elements in the same order, whatever PreExisting and PreExistingCoverage
\* hold.
C1_StaticScenarioVerbatim ==
    (lastOp = "select" /\ StaticKey(filterState) \in DOMAIN STATIC_FILTER_SCENARIOS)
        => /\ ~filteredPlans.null
           /\ filteredPlans.list = STATIC_FILTER_SCENARIOS[StaticKey(filterState)]

C1_Witness ==
    /\ lastOp = "select"
    /\ StaticKey(filterState) = "2:all"
    /\ localData.data.PreExisting = "yes"
    /\ localData.data.PreExistingCoverage = "no"
    /\ Len(filteredPlans.list) = 9

BothConstrained(fs) ==
    /\ fs.InsuranceReason \in {"0", "1", "2"}
    /\ fs.CoverageTier \in {"basic", "comprehensive"}

\* list holds the elements of reasonSet that are also in tierSet, each once,
\* in reasonSet's order
IsOrderedIntersection(list, reasonSet, tierSet) ==
    /\ Range(list) = Range(reasonSet) \cap Range(tierSet)
    /\ Distinct(list)
    /\ \A i, j \in DOMAIN list :
          i < j => IndexOf(reasonSet, list[i]) < IndexOf(reasonSet, list[j])

\* C2 as stated: for every constrained InsuranceReason R and CoverageTier T
\* the list returned is the reason set of R intersected with the tier set
\* of T, in the reason set's order.
C2_IntersectionLaw ==
    (lastOp = "select" /\ BothConstrained(filterState))
        => /\ ~filteredPlans.null
           /\ IsOrderedIntersection(filteredPlans.list,
                                    INSURANCE_REASON_SETS[filterState.InsuranceReason],
                                    COVERAGE_TIER_SETS[filterState.CoverageTier])

\* C2 amended: the intersection law holds for the constrained pairs that are
\* not keys of the static scenario table (0:basic and 2:basic).
C2_IntersectionLawOffStatic ==
    (/\ lastOp = "select"
     /\ BothConstrained(filterState)
     /\ StaticKey(filterState) \notin DOMAIN STATIC_FILTER_SCENARIOS)
        => /\ ~filteredPlans.null
           /\ IsOrderedIntersection(filteredPlans.list,
                                    INSURANCE_REASON_SETS[filterState.InsuranceReason],
                                    COVERAGE_TIER_SETS[filterState.CoverageTier])

C2_Witness ==
    /\ lastOp = "select"
    /\ filterState.InsuranceReason = "0"
    /\ filterState.CoverageTier = "basic"
    /\ filteredPlans.list = <<"LINK 2", "LINK 3", "ZONE FUNDAMENTAL PLAN", "ZONE 5">>

\* C4: for every key of the README's Static Filter Scenarios table
\* getFilteredPlans returns the documented list; InsuranceReason 1 with
\* CoverageTier 'all' yields the documented 9-plan list.
C4_ReadmeScenarios ==
    (lastOp = "select" /\ StaticKey(filterState) \in DOMAIN README_STATIC_FILTER_SCENARIOS)
        => /\ ~filteredPlans.null
           /\ filteredPlans.list = README_STATIC_FILTER_SCENARIOS[StaticKey(filterState)]

AllPlans ==
    {"LINK 1", "LINK 2", "LINK 3", "LINK 4", "ZONE 2", "ZONE 3", "ZONE 4",
     "ZONE 5", "ZONE 6", "ZONE 7", "ZONE FUNDAMENTAL PLAN"}

InDomain(fs) ==
    /\ fs.InsuranceReason \in {"0", "1", "2"}
    /\ fs.CoverageTier \in {"basic", "comprehensive"}
    /\ fs.PreExisting \in {"yes", "no", Undefined, Null}
    /\ fs.PreExistingCoverage \in {"yes", "no", Undefined, Null}

\* C9: InsuranceReason 0, CoverageTier basic, PreExisting no gives exactly
\* ZONE 5, LINK 2, LINK 3 in that order whatever PreExistingCoverage is, and
\* every in-domain filter state gives 3 distinct plan names.
C9_TopThreeFixture ==
    lastOp = "top3" =>
        /\ (/\ filterState.InsuranceReason = "0"
            /\ filterState.CoverageTier = "basic"
            /\ filterState.PreExisting = "no")
              => topThree = <<"ZONE 5", "LINK 2", "LINK 3">>
        /\ InDomain(filterState)
              => /\ Len(topThree) = 3
                 /\ Distinct(topThree)
                 /\ Range(topThree) \subseteq AllPlans

C9_Witness ==
    /\ lastOp = "top3"
    /\ filterState.InsuranceReason = "0"
    /\ filterState.CoverageTier = "basic"
    /\ filterState.PreExisting = "no"
    /\ filterState.PreExistingCoverage = "yes"
    /\ topThree = <<"ZONE 5", "LINK 2", "LINK 3">>

\* C10: two filter states with InsuranceReason 2 and the same CoverageTier
\* get the same top-3 list, whatever their PreExisting and
\* PreExistingCoverage values.
C10_Reason2IgnoresPreExisting ==
    (/\ lastOp = "top3"
     /\ filterState.InsuranceReason = "2"
     /\ filterState2.InsuranceReason = "2"
     /\ filterState.CoverageTier = filterState2.CoverageTier)
        => topThree = topThree2

C10_Witness ==
    /\ lastOp = "top3"
    /\ filterState.InsuranceReason = "2"
    /\ filterState2.InsuranceReason = "2"
    /\ filterState.CoverageTier = "comprehensive"
    /\ filterState2.CoverageTier = "comprehensive"
    /\ filterState.PreExisting = "yes"
    /\ filterState.PreExistingCoverage = "yes"
    /\ filterState2.PreExisting = "no"
    /\ filterState2.PreExistingCoverage = Undefined
    /\ topThree = <<"ZONE 3", "ZONE 2", "LINK 4">>

(***************************************************************************)
(* Properties of the renderer of plan-card-display                         *)
(***************************************************************************)
\* the elements' identities and containers, in document order
Placement(d) == [i \in DOMAIN d |-> [id |-> d[i].id, parent |-> d[i].parent]]

Hidden(e) == e.display = "none"

\* a step in which plan-card-display ran applyPlanVisibilityAndOrder
CardRenders == page = "plan-card-display" /\ lastOp' = "render"

\* the list that render worked with: the selector applied to the storage
\* the render read
RenderedList == getFilteredPlans(getCurrentFilterState(localData'))

Unconstrained(ld) ==
    \/ ~ld.exists
    \/ /\ ld.data.InsuranceReason \in {Undefined, "all"}
       /\ ld.data.CoverageTier \in {Undefined, "all"}

InjectedUntouched ==
    \A i \in DOMAIN dom : dom[i].injected =>
        \E j \in DOMAIN dom' : dom'[j] = dom[i]

\* C3 as stated: with InsuranceReason and CoverageTier both absent or 'all'
\* the selector returns null and the render changes neither the order nor
\* the visibility of any plan element, whatever the plan list looked like.
C3_NoFilterLeavesDomUnchanged ==
    [][(CardRenders /\ Unconstrained(localData'))
          => (RenderedList.null /\ dom' = dom)]_vars

\* C3 amended: with both fields absent or 'all' the selector returns null
\* and the render leaves the order of the plan elements unchanged, shows
\* every managed element (also one that was hidden) and leaves injected
\* elements as they were.
C3_NoFilterShowsAllInPlace ==
    [][(CardRenders /\ Unconstrained(localData'))
          => /\ RenderedList.null
             /\ Placement(dom') = Placement(dom)
             /\ \A i \in DOMAIN dom' :
                   IF dom'[i].injected THEN dom'[i] = dom[i]
                                       ELSE dom'[i].display = ""]_vars

C3_Witness ==
    /\ page = "plan-card-display"
    /\ lastOp = "render"
    /\ filterStyle = "limit"
    /\ localData.exists
    /\ localData.data.InsuranceReason = Undefined
    /\ localData.data.CoverageTier = Undefined
    /\ Len(ManagedPlanElements(dom)) >= 2
    /\ \A i \in DOMAIN dom : ~dom[i].injected => ~Hidden(dom[i])

\* C5: in hideOnly mode with a non-null list the render leaves the order of
\* all plan elements unchanged, hides exactly the managed elements whose
\* plan is not in the list and shows exactly those whose plan is in it.
C5_HideOnlyKeepsOrder ==
    [][(CardRenders /\ filterStyle = "hideOnly" /\ ~RenderedList.null)
          => /\ Placement(dom') = Placement(dom)
             /\ InjectedUntouched
             /\ \A i \in DOMAIN dom' : ~dom'[i].injected =>
                   /\ Hidden(dom'[i]) <=> ~Includes(RenderedList.list, dom'[i].plan)
                   /\ dom'[i].display = "" <=> Includes(RenderedList.list, dom'[i].plan)]_vars

\* DOM [LINK 1, ZONE 2, LINK 2] with included {LINK 1, LINK 2} keeps its
\* order, ZONE 2 hidden
C5_Witness ==
    /\ page = "plan-card-display"
    /\ lastOp = "render"
    /\ filterStyle = "hideOnly"
    /\ Len(dom) = 3
    /\ [i \in 1..3 |-> dom[i].plan] = <<"LINK 1", "ZONE 2", "LINK 2">>
    /\ [i \in 1..3 |-> dom[i].id] = <<1, 2, 3>>
    /\ \A i \in 1..3 : ~dom[i].injected
    /\ ~getFilteredPlans(getCurrentFilterState(localData)).null
    /\ [i \in 1..3 |-> dom[i].display] = <<"", "none", "">>

\* position of the element id in d
PositionOf(d, id) == CHOOSE i \in DOMAIN d : d[i].id = id

\* in d the managed elements named in list precede the other managed ones
IncludedFirst(d, list) ==
    \A i, j \in DOMAIN d :
        (/\ ~d[i].injected /\ ~d[j].injected
         /\ Includes(list, d[i].plan) /\ ~Includes(list, d[j].plan)) => i < j

\* within the included group and within the other group the managed
\* elements of after keep the relative order they had in before
GroupsKeepOrder(before, after, list) ==
    \A i, j \in DOMAIN after :
        (/\ ~after[i].injected /\ ~after[j].injected /\ i < j
         /\ Includes(list, after[i].plan) = Includes(list, after[j].plan))
            => PositionOf(before, after[i].id) < PositionOf(before, after[j].id)

SameElements(before, after) ==
    /\ Len(after) = Len(before)
    /\ \A i \in DOMAIN before : \E j \in DOMAIN after :
          /\ after[j].id = before[i].id
          /\ after[j].plan = before[i].plan
          /\ after[j].injected = before[i].injected

\* C6: in limit mode with a non-null list the included managed elements
\* come first in their previous relative order, then the non-included ones
\* in their previous relative order, and exactly the non-included are
\* hidden.
C6_LimitReordersAndHides ==
    [][(CardRenders /\ filterStyle = "limit" /\ ~RenderedList.null)
          => /\ SameElements(dom, dom')
             /\ IncludedFirst(dom', RenderedList.list)
             /\ GroupsKeepOrder(dom, dom', RenderedList.list)
             /\ \A i \in DOMAIN dom' : ~dom'[i].injected =>
                   (Hidden(dom'[i]) <=> ~Includes(RenderedList.list, dom'[i].plan))]_vars

\* DOM [LINK 1, ZONE 2, LINK 2] with included {LINK 1, LINK 2} has become
\* [LINK 1, LINK 2, ZONE 2] with ZONE 2 hidden
C6_Witness ==
    /\ page = "plan-card-display"
    /\ lastOp = "render"
    /\ filterStyle = "limit"
    /\ Len(dom) = 3
    /\ [i \in 1..3 |-> dom[i].plan] = <<"LINK 1", "LINK 2", "ZONE 2">>
    /\ [i \in 1..3 |-> dom[i].id] = <<1, 3, 2>>
    /\ \A i \in 1..3 : ~dom[i].injected
    /\ [i \in 1..3 |-> dom[i].display] = <<"", "", "none">>

\* C7: in showAll mode with a non-null list every managed element is
\* visible after the render, also one that was hidden before it, and the
\* included elements precede all non-included ones.
C7_ShowAllShowsEverything ==
    [][(CardRenders /\ filterStyle = "showAll" /\ ~RenderedList.null)
          => /\ SameElements(dom, dom')
             /\ IncludedFirst(dom', RenderedList.list)
             /\ \A i \in DOMAIN dom' : ~dom'[i].injected => ~Hidden(dom'[i])]_vars

\* static scenario 2:all over [LINK 1, ZONE 2, LINK 2]: LINK 1 is moved
\* behind the two included plans and everything is visible
C7_Witness ==
    /\ page = "plan-card-display"
    /\ lastOp = "render"
    /\ filterStyle = "showAll"
    /\ StaticKey(getCurrentFilterState(localData)) = "2:all"
    /\ Len(dom) = 3
    /\ [i \in 1..3 |-> dom[i].plan] = <<"ZONE 2", "LINK 2", "LINK 1">>
    /\ [i \in 1..3 |-> dom[i].id] = <<2, 3, 1>>
    /\ \A i \in 1..3 : ~dom[i].injected /\ ~Hidden(dom[i])

\* the list names no managed plan element of d
NamesNoElement(d, list) ==
    \A i \in DOMAIN d : ~d[i].injected => ~Includes(list, d[i].plan)

\* C12: when the computed list names no plan element present on the page,
\* the render (in every mode) leaves every plan visible in its existing
\* order instead of hiding all plans.
C12_FailsOpen ==
    [][(CardRenders /\ ~RenderedList.null /\ NamesNoElement(dom, RenderedList.list))
          => /\ Placement(dom') = Placement(dom)
             /\ \A i \in DOMAIN dom' : ~dom'[i].injected => ~Hidden(dom'[i])]_vars

(***************************************************************************)
(* Properties of both renderers                                            *)
(***************************************************************************)
\* C8: a render that follows a render of the same kind with the same
\* stored filter state, display mode and results changes nothing: neither
\* the order nor the visibility of any plan element.
C8_RenderIdempotent ==
    [][(/\ lastOp \in {"render", "renderRecommended"}
        /\ lastOp' = lastOp
        /\ localData' = localData
        /\ planQuotes' = planQuotes)
          => dom' = dom]_vars

\* dpr-results has reordered and hidden: rank order LINK 1, LINK 2 first
C8_Witness ==
    /\ page = "dpr-results"
    /\ lastOp = "render"
    /\ Len(dom) = 3
    /\ [i \in 1..3 |-> dom[i].plan] = <<"LINK 1", "LINK 2", "ZONE 2">>
    /\ [i \in 1..3 |-> dom[i].id] = <<3, 1, 2>>
    /\ [i \in 1..3 |-> dom[i].display] = <<"", "", "none">>

(***************************************************************************)
(* Properties of the renderer of dpr-results                               *)
(***************************************************************************)
\* a step in which dpr-results ran applyPlanVisibilityAndOrder
DprRenders ==
    page = "dpr-results" /\ lastOp' \in {"render", "renderRecommended"}

\* the filter state that render read
RenderedFilterState == getCurrentFilterStateDpr(localData')

\* that render took its top list from determineTopThreePlans
StaticTopListUsed ==
    \/ lastOp' = "render"
    \/ ~sortByRecommendation
    \/ Len(getTopPlansFromRecommendation(planQuotes')) = 0

OutOfDomain(fs) ==
    \/ fs.InsuranceReason \notin {"0", "1", "2"}
    \/ fs.CoverageTier \notin {"basic", "comprehensive"}

AllUnranked(quotes) ==
    \A i \in DOMAIN quotes : quotes[i].Recommendation \in {0, NoRecommendation}

\* a step in which the render that follows a fetch ran with
\* sortByRecommendation enabled over a response without any rank
UnrankedFetchRender ==
    /\ page = "dpr-results"
    /\ lastOp' = "renderRecommended"
    /\ sortByRecommendation
    /\ AllUnranked(planQuotes')

\* the top list of the render that follows a fetch
FetchTopList == DetermineTopList(localData', planQuotes', sortByRecommendation, TRUE)

Ranked(quotes) == {i \in DOMAIN quotes : quotes[i].Recommendation \in 1..3}

\* position in quotes of the plan called name
QuoteOf(quotes, name) == CHOOSE i \in DOMAIN quotes : quotes[i].PlanName = name

\* list holds exactly the names of the ranked quotes, ascending by
\* Recommendation, quotes of equal rank in response order
RankedAscendingStable(list, quotes) ==
    /\ Len(list) = Cardinality(Ranked(quotes))
    /\ Range(list) = {quotes[i].PlanName : i \in Ranked(quotes)}
    /\ \A k, l \in DOMAIN list : k < l =>
          LET a == QuoteOf(quotes, list[k])
              b == QuoteOf(quotes, list[l])
          IN  \/ quotes[a].Recommendation < quotes[b].Recommendation
              \/ quotes[a].Recommendation = quotes[b].Recommendation /\ a < b

\* C14: getTopPlansFromRecommendation returns at most 3 names, exactly those
\* of the plans ranked 1, 2 or 3, ascending by rank, equal ranks in input
\* order, for every plan list, also one where ranks repeat.
C14_AtMostThreeRankedStable ==
    lastOp = "recommend" =>
        /\ Len(recommendedPlans) <= 3
        /\ RankedAscendingStable(recommendedPlans, planQuotes)

\* C15: a render triggered by a change of a filter field or by a failed
\* fetch orders and shows the plans by the static filter-based top-3, as if
\* recommendation sorting were disabled, also when sortByRecommendation is
\* enabled and valid recommendations are stored.
C15_FilterChangeUsesStaticOrder ==
    [][(page = "dpr-results" /\ lastOp' = "render")
          => dom' = applyPlanVisibilityAndOrderDpr(dom, localData', planQuotes',
                                                   FALSE, FALSE)]_vars

\* recommendations rank ZONE 2 first, yet after a filter change the static
\* list LINK 1, LINK 2, ZONE FUNDAMENTAL PLAN orders the page
C15_Witness ==
    /\ page = "dpr-results"
    /\ lastOp = "render"
    /\ sortByRecommendation
    /\ getTopPlansFromRecommendation(planQuotes) = <<"ZONE 2", "LINK 2">>
    /\ determineTopThreePlans(getCurrentFilterStateDpr(localData))
          = <<"LINK 1", "LINK 2", "ZONE FUNDAMENTAL PLAN">>
    /\ Len(dom) = 3
    /\ [i \in 1..3 |-> dom[i].plan] = <<"LINK 1", "LINK 2", "ZONE 2">>
    /\ [i \in 1..3 |-> dom[i].display] = <<"", "", "none">>

\* the top list the render of this step used
UsedTopList ==
    DetermineTopList(localData', planQuotes', sortByRecommendation,
                     lastOp' = "renderRecommended")

\* the stored 'plans' mode the render of this step read
StoredPlansMode == localData'.data.plans

\* in d the elements named in list come first, in the order of the list
TopListFirstInRankOrder(d, list) ==
    \A i, j \in DOMAIN d : i < j =>
        /\ Includes(list, d[j].plan) => Includes(list, d[i].plan)
        /\ (Includes(list, d[i].plan) /\ Includes(list, d[j].plan))
              => IndexOf(list, d[i].plan) <= IndexOf(list, d[j].plan)

\* the elements of after that list does not name keep the relative order
\* they had in before
OthersKeepOrder(before, after, list) ==
    \A i, j \in DOMAIN after :
        (i < j /\ ~Includes(list, after[i].plan) /\ ~Includes(list, after[j].plan))
            => PositionOf(before, after[i].id) < PositionOf(before, after[j].id)

\* C16: after a dpr-results render with a non-empty top list, mode
\* 'suggested' or absent shows exactly the elements named in the top list
\* and hides all others, mode 'all' shows every plan element, and in both
\* modes the top-list elements come first in the list's rank order,
\* followed by the others in their previous relative order.
C16_PlansModeVisibilityAndOrder ==
    [][(DprRenders /\ localData'.exists /\ Len(UsedTopList) > 0)
          => LET list == UsedTopList
                 after == dom'
             IN  /\ SameElements(dom, after)
                 /\ TopListFirstInRankOrder(after, list)
                 /\ OthersKeepOrder(dom, after, list)
                 /\ StoredPlansMode \in {"suggested", Undefined}
                       => \A i \in DOMAIN after :
                             Hidden(after[i]) <=> ~Includes(list, after[i].plan)
                 /\ StoredPlansMode = "all"
                       => \A i \in DOMAIN after : ~Hidden(after[i])]_vars

\* recommendation order ZONE 2, LINK 2 over [LINK 1, ZONE 2, LINK 2] in mode
\* 'all': ZONE 2, LINK 2, LINK 1, all visible
C16_Witness ==
    /\ page = "dpr-results"
    /\ lastOp = "renderRecommended"
    /\ sortByRecommendation
    /\ getTopPlansFromRecommendation(planQuotes) = <<"ZONE 2", "LINK 2">>
    /\ localData.data.plans = "all"
    /\ Len(dom) = 3
    /\ [i \in 1..3 |-> dom[i].plan] = <<"ZONE 2", "LINK 2", "LINK 1">>
    /\ [i \in 1..3 |-> dom[i].id] = <<2, 3, 1>>
    /\ \A i \in 1..3 : ~Hidden(dom[i])

(***************************************************************************)
(* Properties of the comparison                                            *)
(***************************************************************************)
\* C17: after any sequence of checkbox changes, remove clicks, compare and
\* clear actions the selection holds at most 3 plans, never the same plan
\* twice, and whenever it holds 3 every unchecked comparison checkbox is
\* disabled.
C17_SelectionBoundedBoxesDisabled ==
    /\ Len(selectedPlans) <= 3
    /\ Distinct(selectedPlans)
    /\ (Len(selectedPlans) = 3 =>
           \A i \in DOMAIN checkboxes :
              ~checkboxes[i].checked => checkboxes[i].disabled)

\* an element the page shows: neither an inline display 'none' nor the
\* class 'hide'
Shown(e, hide) == e.display # "none" /\ e.id \notin hide

\* a step of the compare button's click listener outside comparison mode
Activates == page = "plan-card-display" /\ lastOp' = "activate"

\* C18: activating comparison with at least one selected plan leaves the
\* stored filter state with no InsuranceReason and no CoverageTier
\* constraint, disables every InsuranceReason and CoverageTier control, hides
\* every plan element that is not selected, shows every selected one and
\* hides the remove buttons; activating with no selected plan changes
\* nothing.
C18_ActivationEffects ==
    [][Activates =>
         IF Len(selectedPlans) = 0
         THEN UNCHANGED <<localData, dom, compareVars>>
         ELSE /\ isCompareActive'
              /\ selectedPlans' = selectedPlans
              /\ Unconstrained(localData')
              /\ getCurrentFilterState(localData') =
                     [InsuranceReason |-> "all", CoverageTier |-> "all"]
              /\ filterControlsDisabled'
              /\ removeButtonsHidden'
              /\ SameElements(dom, dom')
              /\ \A i \in DOMAIN dom' :
                    IF Includes(selectedPlans, dom'[i].plan)
                    THEN Shown(dom'[i], hideClass')
                    ELSE ~Shown(dom'[i], hideClass')]_vars

\* comparison is active with a selected plan shown, another plan hidden and
\* the filters reset
C18_Witness ==
    /\ lastOp = "activate"
    /\ isCompareActive
    /\ filterStyle = "limit"
    /\ Unconstrained(localData)
    /\ filterControlsDisabled
    /\ removeButtonsHidden
    /\ \E i, j \in DOMAIN dom :
          /\ Includes(selectedPlans, dom[i].plan) /\ Shown(dom[i], hideClass)
          /\ ~Includes(selectedPlans, dom[j].plan) /\ ~Shown(dom[j], hideClass)

\* C19: while comparison mode is active the selection is immutable: no
\* checkbox change or remove-button click adds or removes a plan, and the
\* selection changes only by being emptied when comparison is cleared.
C19_ActiveSelectionImmutable ==
    [][isCompareActive =>
         /\ (lastOp' \in {"select", "remove"} =>
                /\ selectedPlans' = selectedPlans
                /\ compareSlots' = compareSlots
                /\ isCompareActive')
         /\ (selectedPlans' # selectedPlans =>
                /\ lastOp' = "clear"
                /\ selectedPlans' = <<>>
                /\ ~isCompareActive')]_vars

\* a remove button was clicked during an active comparison of two plans
C19_Witness ==
    /\ isCompareActive
    /\ lastOp = "remove"
    /\ Len(selectedPlans) = 2
    /\ \E k \in DOMAIN compareSlots : compareSlots[k] = selectedPlans[2]

\* C20: while comparison mode is active the filter pipeline
\* getCurrentFilterState -> getFilteredPlans -> applyPlanVisibilityAndOrder
\* never runs, whatever the interleaving of user events with the completion
\* of the page-load quote request.
C20_NoRenderWhileComparing ==
    [][CardRenders => ~isCompareActive]_vars

\* a step of the compare button's click listener in comparison mode
Clears == page = "plan-card-display" /\ lastOp' = "clear"

\* C21: comparison round-trip: after selecting plans A and B and activating
\* comparison every plan element other than A and B is hidden; after
\* clearing, the visibility and order of the plan elements equal what
\* applyPlanVisibilityAndOrder alone produces for the filter state then in
\* storage, the selection is empty and the filter controls are enabled.
C21_ComparisonRoundTrip ==
    [][/\ (Activates /\ Len(selectedPlans) = 2 =>
             \A i \in DOMAIN dom' :
                dom'[i].plan \notin {selectedPlans[1], selectedPlans[2]} =>
                    ~Shown(dom'[i], hideClass'))
       /\ (Clears =>
             /\ dom' = applyPlanVisibilityAndOrder(dom, localData', filterStyle)
             /\ dom' = applyPlanVisibilityAndOrder(dom', localData', filterStyle)
             /\ hideClass' = {}
             /\ selectedPlans' = <<>>
             /\ ~isCompareActive'
             /\ ~filterControlsDisabled')]_vars

\* comparison has been cleared on a page of three plan elements, all shown
\* again, with both compare plans on the page
C21_Witness ==
    /\ lastOp = "clear"
    /\ ~isCompareActive
    /\ selectedPlans = <<>>
    /\ ~filterControlsDisabled
    /\ Len(dom) = 3
    /\ \E i, j \in DOMAIN dom : dom[i].plan = "LINK 1" /\ dom[j].plan = "ZONE 2"
    /\ \A i \in DOMAIN dom : Shown(dom[i], hideClass)

\* what a click on the compare button right after an activation leaves
ClearedAfterActivation == clearComparison(CurrentCompareState', filterStyle)

\* C22: activating and then clearing comparison resumes normal filtering
\* where it would have been had comparison never been activated: the filter
\* state after the clear is the one in effect before the activation, and
\* the plan visibility and order are those of normal filtering for it.
C22_ClearResumesFiltering ==
    [][Activates /\ Len(selectedPlans) > 0 =>
         /\ getCurrentFilterState(ClearedAfterActivation.localData) =
                getCurrentFilterState(localData)
         /\ ClearedAfterActivation.dom =
                applyPlanVisibilityAndOrder(dom, localData, filterStyle)
         /\ ClearedAfterActivation.hideClass = {}]_vars

\* the injected elements of d, in document order
InjectedElements(d) == SelectSeq(d, LAMBDA e : e.injected)

\* C24: no operation of plan-card-display (applyPlanVisibilityAndOrder in
\* any mode, activateComparison, clearComparison) changes the visibility or
\* the position of a plan element marked data-injected-plan.
C24_InjectedNeverTouched ==
    [][page = "plan-card-display" =>
         /\ InjectedElements(dom') = InjectedElements(dom)
         /\ \A i \in DOMAIN dom : dom[i].injected =>
               (dom[i].id \in hideClass' <=> dom[i].id \in hideClass)]_vars

\* C23: every programmatic form-field write that dispatches a change or
\* input event runs with the isSyncing guard set, so a programmatic write
\* never makes syncFormFieldToStorage write storage or re-run the render
\* pipeline: no handler runs the body of syncFormFieldToStorage through an
\* event it dispatched itself.
C23_ProgrammaticWritesGuarded ==
    [][page = "plan-card-display" => programmaticSyncs' = 0]_vars

(***************************************************************************)
(* Properties of the page load                                             *)
(***************************************************************************)
\* C25: on every page load of plan-card-display, whether validation fails,
\* the quote request fails or it succeeds, exactly one 'plans-populated'
\* event is eventually dispatched; its detail.success is true only if the
\* quote request succeeded, and window.__plansPopulatedData holds the same
\* value when the event is dispatched.
C25_ExactlyOnePlansPopulated ==
    /\ <>(Len(populatedEvents) = 1)
    /\ [](/\ Len(populatedEvents) <= 1
          /\ (populatedEvents # <<>> =>
                /\ plansPopulatedData = <<populatedEvents[1]>>
                /\ (populatedEvents[1] => quoteRequest = "succeeded")))

\* the event has been dispatched after a failed validation
C25_Witness ==
    /\ quoteRequest = "invalid"
    /\ populatedEvents = <<FALSE>>
    /\ plansPopulatedData = <<FALSE>>
    /\ ~populatedTimer

\* C26: plan injection runs exactly once per page load whichever happens
\* first, plan-injector registering its listener or plan-card-display
\* dispatching the event.
C26_InjectionExactlyOnce ==
    /\ <>(injections = 1)
    /\ [](injections <= 1)

\* a step in which the page-load quote request settles
PageLoadSettles ==
    /\ page = "plan-card-display"
    /\ quoteRequest \in {"unstarted", "pending"}
    /\ quoteRequest' \in {"succeeded", "failed", "invalid"}

\* C30: the renderer runs unconditionally once the page-load quote request
\* settles: on success and on failure alike applyPlanVisibilityAndOrder has
\* been run and the plan list is filtered and ordered for the stored filter
\* state.
C30_RenderOnEverySettle ==
    [][PageLoadSettles =>
         dom' = applyPlanVisibilityAndOrder(dom, localData, filterStyle)]_vars

\* C27: on the results page no personal field is ever present in
\* dpr_local_data or in the query string, whatever prefills, field changes,
\* modal resets and quote requests have happened.
C27_PersonalNeverInLocalOrUrl ==
    \A f \in PersonalFields \cap DOMAIN localFields :
        /\ localFields[f] = Undefined
        /\ urlParams[f] = Undefined

\* a quote request is issued by the step
Issues == apiRequest' \ apiRequest # {}

\* C28: every step of dpr-results that issues a quote request, on page load
\* or on Get Quote, does so with stored data that pass validateRequiredFields.
C28_RequestsValidated ==
    [][Issues => validateRequiredFields(localData', localFields')]_vars

\* a missing value, absent or null, reads as null
Present(value) == IF isFieldMissing(value) THEN Null ELSE value

\* the four modal fields are, in localStorage and in every form, what they
\* were when the modal was opened
RestoredToSnapshot ==
    \A f \in ModalFields :
        /\ Present(localFields[f]) = Present(modalSnapshot.local[f])
        /\ \A form \in DOMAIN formValues :
              f \in DOMAIN formValues[form] =>
                 Present(formValues[form][f].value)
                   = Present(modalSnapshot.forms[form][f].value)

\* the modal was opened, a modal field edited, and the modal cancelled or
\* closed without a click on Get Quote
ClosedUnsubmitted ==
    /\ lastOp \in {"cancel", "close"}
    /\ modalSnapshot.edited
    /\ ~modalSnapshot.submitted

\* C29: after the modal was opened, CoverageType, Dependents, Age or Province
\* edited, and the modal cancelled or closed without Get Quote, the four
\* fields equal, in every form and in localStorage, their values at opening.
C29_CancelRestoresValues ==
    ClosedUnsubmitted => RestoredToSnapshot

\* C35: the comparison checkbox of an injected (cloned) plan card is disabled
\* in every state, whatever selections, removals, activations and clears
\* have happened.
C35_InjectedCheckboxStaysDisabled ==
    \A i \in DOMAIN checkboxes :
        ~checkboxes[i].wired => checkboxes[i].disabled

\* what the handlers make of the current state when its last selected plan
\* is removed: removePlanFromCompare, updateCheckboxState, then
\* updateCompareButtonState
LastPlanRemoved ==
    updateCompareButtonState(
        updateCheckboxState(
            removePlanFromCompare(CurrentCompareState, selectedPlans[1])),
        filterStyle)

\* C36: comparison mode is active only with a non-empty selection; a click
\* on the compare button with nothing selected activates nothing; and when the
\* selection of an active comparison drops to zero, updateCompareButtonState
\* and clearComparison terminate in the idle state (nothing selected, not
\* active, no column hidden by the comparison).
C36_ActiveOnlyWhileSelected ==
    /\ (isCompareActive => selectedPlans # <<>>)
    /\ (lastOp = "activate" /\ selectedPlans = <<>> => ~isCompareActive)
    /\ (isCompareActive /\ Len(selectedPlans) = 1 =>
           /\ LastPlanRemoved.selectedPlans = <<>>
           /\ ~LastPlanRemoved.isCompareActive
           /\ LastPlanRemoved.hideClass = {}
           /\ \A i \in DOMAIN checkboxes :
                 ~LastPlanRemoved.checkboxes[i].checked)

C36_Witness ==
    /\ lastOp = "activate"
    /\ isCompareActive
    /\ Len(selectedPlans) = 1
    /\ hideClass # {}

\* every element of before is in after exactly once, with the same parent
SamePlacement(before, after) ==
    /\ SameElements(before, after)
    /\ \A i, j \in DOMAIN after : after[i].id = after[j].id => i = j
    /\ \A i \in DOMAIN before :
          ElementById(after, before[i].id).parent = before[i].parent

\* C38: a render of either page, in every mode, keeps every plan element of
\* the page, exactly once and in the parent container it was in before.
C38_ReorderKeepsPlacement ==
    [][CardRenders \/ DprRenders => SamePlacement(dom, dom')]_vars

\* the step closes the quote modal
ModalCloses == modalOpen /\ ~modalOpen'

\* the step leaves the four modal fields as they are, in localStorage and in
\* every form
ModalFieldsKept ==
    \A f \in ModalFields :
        /\ Present(localFields'[f]) = Present(localFields[f])
        /\ \A form \in DOMAIN formValues :
              f \in DOMAIN formValues[form] =>
                 Present(formValues'[form][f].value)
                   = Present(formValues[form][f].value)

\* localStorage holds for the four modal fields what the quote form showed
\* when the modal was last opened
StorageAsShownAtOpening ==
    \A f \in ModalFields :
        Present(localFields[f])
          = Present(getFieldValue(modalSnapshot.forms, QuoteForm, f))

\* C34: a close of the modal that follows a click on Get Quote restores
\* nothing and leaves isFormSubmitting false; a close of a modal in which Get
\* Quote was not clicked puts localStorage back to the values of that
\* opening, never to values saved before an earlier submission.
C34_SubmittedValuesSurviveClose ==
    [][ModalCloses =>
          /\ ~isFormSubmitting'
          /\ (modalSnapshot.submitted => ModalFieldsKept)
          /\ (~modalSnapshot.submitted => StorageAsShownAtOpening')]_vars

\* C33: between handlers isSyncing is false, also after a guarded handler
\* was left by an exception, and no user field change returns at the guard.
C33_GuardAlwaysReleased ==
    /\ ~isSyncing
    /\ lastOp # "ignored"

C33_Witness ==
    /\ lastOp = "thrown"
    /\ ~isSyncing
    /\ page = "dpr-results"
    /\ modalOpen

\* the step stores the response of a quote request
StoresResponse == lastOp' = "settled"

\* C37: the page-load request is issued before every Get Quote request, so
\* once the response of a Get Quote request is stored and rendered, the
\* response of the page-load request never replaces it, and a response of a
\* Get Quote request is always stored when it arrives.
C37_LatestRequestWins ==
    [][StoresResponse =>
          /\ (resultsData = "modal" => resultsData' = "modal")
          /\ ("modal" \in apiRequest /\ "modal" \notin apiRequest' =>
                 resultsData' = "modal")]_vars

\* the simple tooltips whose description is shown
OpenTooltips == {i \in DOMAIN tooltips : tooltips[i].display = "block"}

\* C31: at most one simple tooltip is open in every state, whichever
\* initialize call set up the components.
C31_AtMostOneTooltipOpen == Cardinality(OpenTooltips) <= 1

\* C32: after any sequence of initialisations every initialised icon carries
\* exactly one click handler, and one click on an initialised icon opens a
\* closed tooltip and closes an open one.
C32_OneHandlerPerIcon ==
    [][/\ \A i \in DOMAIN tooltips' :
             tooltips'[i].initialized => Len(tooltips'[i].handlers) = 1
       /\ (lastOp' = "icon" /\ tooltips[lastIcon'].initialized =>
              (lastIcon' \in OpenTooltips') = (lastIcon' \notin OpenTooltips))]_vars

====
